---------------------------- MODULE Spec2Model ----------------------------
(***************************************************************************)
(* Verification model of the secrets subsystem of openclaw:                *)
(*   - src/secrets/resolver.ts   parseSecretRef, createBackend, getBackend,*)
(*                               resolveSecret, resolveSecretRefs          *)
(*   - src/secrets/backends/pass.ts   PassBackend                          *)
(*   - src/secrets/backends/ganesh.ts GaneshBackend (tiered vault)         *)
(*                                                                         *)
(* Strings that the code takes apart (reference strings, secret paths) are *)
(* sequences of one-character strings, so that the regular expressions of  *)
(* the code are modelled by what they match.  Strings that the code only   *)
(* compares or passes on (backend names, error messages) are TLA+ strings. *)
(***************************************************************************)
EXTENDS Integers, Sequences, FiniteSets, TLC

VARIABLES
    \* ---- parseSecretRef, applied to one drawn input ----
    pIn,            \* the drawn input: [b, path, field, dflt, ref]
    pOut,           \* << >> before the call, then <<the SecretRef returned>>
    \* ---- resolver.ts module state and its environment ----
    now,            \* Date.now(), in milliseconds
    ticks,          \* how often the clock has advanced
    secretsCache,   \* resolver.ts secretsCache: ref -> [value, resolvedAt]
    backendInstances, \* resolver.ts backendInstances: type -> instance
    passAvailable,  \* whether pass is installed and its store initialised
    passStore,      \* the password store: sanitized path -> first line
    call,           \* per caller: the frame of its resolveSecret call
    refs,           \* per caller: the frame of its resolveSecretRefs call
    \* ---- the GaneshBackend vault ----
    vdisk,          \* the vault directory: manifest.json, secrets.age, ...
    vault,          \* the fields of the GaneshBackend instance
    vcall,          \* per caller: the frame of its call on the vault
    \* ---- pollTelegramApproval and the update feed it reads ----
    poll,           \* the frame of the pollTelegramApproval call
    feed,           \* the bot's update feed: pending updates, next update id
    clock,          \* Date.now() of the polling process, in milliseconds
    \* ---- the approval requests of one vault ----
    mfaRequests,    \* per requester: the request id of its outstanding
                    \* approval request, << >> when it has none
    \* ---- generateTotp / verifyTotp ----
    totp,           \* one code: secret, time of generation, token, time of
                    \* verification, result of verifyTotp
    hmacTable,      \* HMAC-SHA1 with dynamic truncation, as far as it has
                    \* been computed: <<key bytes, counter>> -> 31-bit value
    \* ---- ganesh-policy-gate.ts ----
    gate,           \* the module state: cachedPolicy, cachedPolicyMtime,
                    \* lastPolicyCheck, auditDirChecked
    gfs,            \* ~/.ganesh: security-policy.json and the audit directory
    genv,           \* Date.now(), GANESH_POLICY_GATE, and how often the
                    \* clock advanced, the policy file changed and
                    \* evaluateCommand was called
    gout,           \* the last call of evaluateCommand and what it returned
    extraction      \* extractBaseCommand applied to a command and to the
                    \* command behind a prefix

parseVars == <<pIn, pOut>>
resolverVars == <<now, ticks, secretsCache, backendInstances, passAvailable,
                  passStore, call, refs>>
vaultVars == <<vdisk, vault, vcall>>
pollVars == <<poll, feed, clock>>
idVars == <<mfaRequests>>
totpVars == <<totp, hmacTable>>
gateVars == <<gate, gfs, genv, gout, extraction>>
vars == <<parseVars, resolverVars, vaultVars, pollVars, idVars, totpVars,
          gateVars>>

\* what the actions of one part leave alone
nonParseVars ==
    <<resolverVars, vaultVars, pollVars, idVars, totpVars, gateVars>>
nonResolverVars ==
    <<parseVars, vaultVars, pollVars, idVars, totpVars, gateVars>>
nonVaultVars ==
    <<parseVars, resolverVars, pollVars, idVars, totpVars, gateVars>>
nonPollVars ==
    <<parseVars, resolverVars, vaultVars, idVars, totpVars, gateVars>>
nonIdVars ==
    <<parseVars, resolverVars, vaultVars, poll, feed, totpVars, gateVars>>
nonTotpVars ==
    <<parseVars, resolverVars, vaultVars, pollVars, idVars, gateVars>>
nonGateVars ==
    <<parseVars, resolverVars, vaultVars, pollVars, idVars, totpVars>>

-----------------------------------------------------------------------------
(* Characters and strings                                                  *)

\* \w of the regular expressions, restricted to the characters of the model
WordChars == {"a", "b", "c", "d", "e", "f", "g", "h", "i", "k", "l", "n",
              "o", "p", "r", "s", "t", "u", "v", "w", "x", "y", "_", "3"}

IsWordChar(c) == c \in WordChars

\* s ++ t
Cat(s, t) == s \o t

\* whether s starts with the characters of t
StartsWith(s, t) ==
    /\ Len(s) >= Len(t)
    /\ SubSeq(s, 1, Len(t)) = t

\* s without its first n characters
Drop(s, n) == SubSeq(s, n + 1, Len(s))

\* the positions of character c in s
Positions(s, c) == {i \in 1..Len(s) : s[i] = c}

Max(S) == CHOOSE x \in S : \A y \in S : y <= x

-----------------------------------------------------------------------------
(* Backend types                                                           *)

\* SecretsBackendType of types.ts
SecretsBackendType == {"pass", "vault", "keyring", "env", "file", "ganesh"}

\* the spelling of a backend type in a reference string
TypeChars(b) ==
    CASE b = "pass"    -> <<"p", "a", "s", "s">>
      [] b = "vault"   -> <<"v", "a", "u", "l", "t">>
      [] b = "keyring" -> <<"k", "e", "y", "r", "i", "n", "g">>
      [] b = "env"     -> <<"e", "n", "v">>
      [] b = "file"    -> <<"f", "i", "l", "e">>
      [] b = "ganesh"  -> <<"g", "a", "n", "e", "s", "h">>
      [] b = "unknown" -> <<"u", "n", "k", "n", "o", "w", "n">>

\* the alternation (pass|vault|keyring|env|file) of the prefix expression
PrefixAlternation == {"pass", "vault", "keyring", "env", "file"}

-----------------------------------------------------------------------------
(* parseSecretRef                                                          *)

\* ref.match(/^(pass|vault|keyring|env|file):(.+)$/): the set of matching
\* alternatives (at most one: no alternative followed by ':' is a prefix of
\* another); (.+) needs at least one character after the colon
PrefixMatch(ref) ==
    {b \in PrefixAlternation :
        /\ StartsWith(ref, Cat(TypeChars(b), <<":">>))
        /\ Len(ref) > Len(TypeChars(b)) + 1}

\* pathWithField.match(/^(.+)#(\w+)$/): the position of the '#' that splits
\* path and field, 0 when there is no match.  (\w+)$ cannot contain '#', so
\* the only candidate is the last '#'; (.+) needs a character before it.
FieldMatch(s) ==
    LET hs == Positions(s, "#") IN
    IF hs = {} THEN 0
    ELSE LET h == Max(hs) IN
         IF /\ h >= 2
            /\ h < Len(s)
            /\ \A j \in (h + 1)..Len(s) : IsWordChar(s[j])
         THEN h ELSE 0

\* parseSecretRef(ref, defaultBackend): a SecretRef, with a field only when
\* the field expression matched
parseSecretRef(ref, defaultBackend) ==
    LET pm == PrefixMatch(ref)
        backend == IF pm # {} THEN CHOOSE b \in pm : TRUE ELSE defaultBackend
        pathWithField ==
            IF pm # {} THEN Drop(ref, Len(TypeChars(backend)) + 1) ELSE ref
        h == FieldMatch(pathWithField)
    IN  IF h # 0
        THEN [backend |-> backend,
              path |-> SubSeq(pathWithField, 1, h - 1),
              field |-> Drop(pathWithField, h)]
        ELSE [backend |-> backend, path |-> pathWithField]

-----------------------------------------------------------------------------
(* Maps (JavaScript Map and object): functions with a finite domain        *)

EmptyMap == << >>

Has(m, k) == k \in DOMAIN m

\* m.set(k, v)
Put(m, k, v) == [x \in DOMAIN m \cup {k} |-> IF x = k THEN v ELSE m[x]]

\* m.delete(k)
Remove(m, k) == [x \in DOMAIN m \ {k} |-> m[x]]

-----------------------------------------------------------------------------
(* PassBackend (src/secrets/backends/pass.ts)                              *)

\* the value null of the code
Null == << >>

\* secretPath.replace(/[^a-zA-Z0-9_\-/]/g, "")
IsPassPathChar(c) == IsWordChar(c) \/ c = "-" \/ c = "/"

Sanitize(path) == SelectSeq(path, IsPassPathChar)

\* PassBackend.isAvailable(): false when `which pass` fails (execFails), when
\* the store directory is missing or when it has no .gpg-id
PassIsAvailable(execFails) == ~execFails /\ passAvailable

\* PassBackend.resolve(secretPath): the trimmed first line of `pass show`,
\* null when the command fails or prints nothing (value || null)
PassResolve(secretPath, execFails) ==
    LET sanitizedPath == Sanitize(secretPath) IN
    IF execFails \/ ~Has(passStore, sanitizedPath)
    THEN Null
    ELSE passStore[sanitizedPath]

-----------------------------------------------------------------------------
(* resolver.ts: createBackend, getBackend, resolveSecret                   *)

\* Cache TTL in milliseconds (5 minutes)
CACHE_TTL_MS == 300000

\* config is undefined, or a SecretsBackendConfig of which the resolver reads
\* only .backend
Undefined == "undefined"

\* createBackend(config): the instance, or the error it throws (the message
\* of the default case without the backend name the code appends)
createBackend(configBackend) ==
    CASE configBackend = "pass" ->
            [ok |-> TRUE, instance |-> "PassBackend"]
      [] configBackend = "vault" ->
            [ok |-> FALSE, error |-> "Vault backend not yet implemented"]
      [] configBackend = "keyring" ->
            [ok |-> FALSE, error |-> "Keyring backend not yet implemented"]
      [] configBackend = "env" ->
            [ok |-> FALSE, error |-> "Env backend not yet implemented"]
      [] configBackend = "file" ->
            [ok |-> FALSE, error |-> "File backend does not support resolution"]
      [] OTHER ->
            [ok |-> FALSE, error |-> "Unknown secrets backend"]

\* getBackend(type, config): the registered instance of the type, else a new
\* one created from (config || { backend: type }) and registered under type
getBackend(type, config) ==
    IF Has(backendInstances, type)
    THEN [ok |-> TRUE, instances |-> backendInstances]
    ELSE LET created == createBackend(IF config = Undefined THEN type ELSE config) IN
         IF created.ok
         THEN [ok |-> TRUE,
               instances |-> Put(backendInstances, type, created.instance)]
         ELSE [ok |-> FALSE, error |-> created.error]

\* a variant of IsFresh that also takes an entry of exactly CACHE_TTL_MS for
\* fresh
IsFresh_Inclusive(entry, t) ==
    entry # << >> /\ t - entry[1].resolvedAt <= CACHE_TTL_MS

\* the test of line 127: cached && Date.now() - cached.resolvedAt < CACHE_TTL_MS
IsFresh(entry, t) ==
    entry # << >> /\ t - entry[1].resolvedAt < CACHE_TTL_MS

\* secretsCache.get(ref) as << >> or <<entry>>
CacheGet(ref) == IF Has(secretsCache, ref) THEN <<secretsCache[ref]>> ELSE << >>

\* the entry of line 156: { value, resolvedAt: Date.now() }
CacheEntry(ref, value) == [value |-> value, resolvedAt |-> now]

\* a variant of Caught that lets the error through; a result [thrown |-> m]
\* stands for a rejected promise
Caught_Rethrown(message) == [thrown |-> message]

\* the catch block of lines 159-162
Caught(message) == [ok |-> FALSE, error |-> message]

\* the results of lines 140-143 and 149-152; the messages are without the
\* backend name and the reference that the code puts into them
NotAvailableResult == [ok |-> FALSE, error |-> "Backend is not available"]

NotFoundResult == [ok |-> FALSE, error |-> "Secret not found"]

\* a variant of CacheAfterResolve that writes the cache before the null test
CacheAfterResolve_BeforeNullCheck(ref, value) ==
    Put(secretsCache, ref, CacheEntry(ref, value))

\* lines 148-156: the cache after backend.resolve returned value; a null
\* returns before the cache is written
CacheAfterResolve(ref, value) ==
    IF value = Null
    THEN secretsCache
    ELSE Put(secretsCache, ref, CacheEntry(ref, value))

\* the entry of ref that a step from cache old to cache new wrote, if any
Written(old, new, ref) ==
    IF Has(new, ref) /\ (~Has(old, ref) \/ old[ref] # new[ref])
    THEN <<new[ref]>> ELSE << >>

\* the frame of a resolveSecret call: its arguments, its position, its result
\* and, for the properties, what it saw and did
IdleCall ==
    [pc |-> "idle", ref |-> << >>, config |-> Undefined, parsed |-> << >>,
     result |-> << >>, startAt |-> 0, doneAt |-> 0, entryAtStart |-> << >>,
     calledAvail |-> FALSE, available |-> << >>, calledResolve |-> FALSE,
     gotValue |-> << >>, wrote |-> << >>]

\* resolveSecret(ref, config) up to its first await, by caller p
ResolveSecretBegin(p, ref, config) ==
    LET cached == CacheGet(ref)
        frame == [IdleCall EXCEPT !.ref = ref, !.config = config,
                                  !.startAt = now, !.entryAtStart = cached]
    IN  IF IsFresh(cached, now)
        THEN /\ call' = [call EXCEPT ![p] =
                    [frame EXCEPT !.pc = "done", !.doneAt = now,
                        !.result = <<[ok |-> TRUE, value |-> cached[1].value,
                                      cached |-> TRUE]>>]]
             /\ UNCHANGED backendInstances
        ELSE LET parsed == parseSecretRef(ref,
                               IF config = Undefined THEN "pass" ELSE config)
                 got == getBackend(parsed.backend, config)
             IN  IF got.ok
                 THEN /\ backendInstances' = got.instances
                      /\ call' = [call EXCEPT ![p] =
                             [frame EXCEPT !.pc = "isAvailable",
                                           !.parsed = <<parsed>>,
                                           !.calledAvail = TRUE]]
                 ELSE /\ UNCHANGED backendInstances
                      /\ call' = [call EXCEPT ![p] =
                             [frame EXCEPT !.pc = "done", !.doneAt = now,
                                           !.parsed = <<parsed>>,
                                           !.result = <<Caught(got.error)>>]]

\* backend.isAvailable() has returned
IsAvailableReturns(p) ==
    /\ call[p].pc = "isAvailable"
    /\ \E execFails \in BOOLEAN :
         IF PassIsAvailable(execFails)
         THEN call' = [call EXCEPT ![p].pc = "resolve",
                                   ![p].available = <<TRUE>>,
                                   ![p].calledResolve = TRUE]
         ELSE call' = [call EXCEPT ![p].pc = "done", ![p].doneAt = now,
                                   ![p].available = <<FALSE>>,
                                   ![p].result = <<NotAvailableResult>>]
    /\ UNCHANGED <<now, ticks, secretsCache, backendInstances, passAvailable,
                   passStore, refs>>
    /\ UNCHANGED nonResolverVars

\* backend.resolve(parsed.path, parsed.field) has returned
ResolveReturns(p) ==
    /\ call[p].pc = "resolve"
    /\ \E execFails \in BOOLEAN :
         LET value == PassResolve(call[p].parsed[1].path, execFails)
             cache == CacheAfterResolve(call[p].ref, value)
         IN  /\ secretsCache' = cache
             /\ call' = [call EXCEPT
                   ![p].pc = "done", ![p].doneAt = now,
                   ![p].gotValue = IF value = Null THEN << >> ELSE <<value>>,
                   ![p].wrote = Written(secretsCache, cache, call[p].ref),
                   ![p].result = IF value = Null THEN <<NotFoundResult>>
                                 ELSE <<[ok |-> TRUE, value |-> value]>>]
    /\ UNCHANGED <<now, ticks, backendInstances, passAvailable, passStore, refs>>
    /\ UNCHANGED nonResolverVars

\* clearSecretsCache()
ClearSecretsCache ==
    /\ secretsCache # EmptyMap
    /\ secretsCache' = EmptyMap
    /\ UNCHANGED <<now, ticks, backendInstances, passAvailable, passStore,
                   call, refs>>
    /\ UNCHANGED nonResolverVars

-----------------------------------------------------------------------------
(* resolver.ts: resolveSecretRefs                                          *)

\* JavaScript values of object fields: strings, numbers, and the error map
JsString(s) == [t |-> "string", s |-> s, m |-> EmptyMap]
JsNumber == [t |-> "number", s |-> << >>, m |-> EmptyMap]
JsObject(m) == [t |-> "object", s |-> << >>, m |-> m]

Str_Ref == <<"R", "e", "f">>
SecretErrorsKey ==
    <<"_", "s", "e", "c", "r", "e", "t", "E", "r", "r", "o", "r", "s">>

\* key.endsWith("Ref")
EndsWithRef(key) ==
    /\ Len(key) >= 3
    /\ SubSeq(key, Len(key) - 2, Len(key)) = Str_Ref

\* a variant of TargetKey that keeps the suffix
TargetKey_KeepsSuffix(key) == key

\* key.slice(0, -3)
TargetKey(key) == SubSeq(key, 1, Len(key) - 3)

\* key.endsWith("Ref") && typeof value === "string"
IsRefField(obj, key) ==
    /\ Has(obj, key)
    /\ EndsWithRef(key)
    /\ obj[key].t = "string"

\* line 186: result is a new object with the fields of obj ({ ...obj }), so
\* writing result does not write the caller's object
ResultIsInput == FALSE

\* the frame of a resolveSecretRefs call.  given: the caller's object as it
\* was passed; obj: the caller's object now; order: Object.entries(obj);
\* outcomes: per reference field, the resolution it got
IdleRefs ==
    [pc |-> "idle", given |-> EmptyMap, obj |-> EmptyMap, config |-> Undefined,
     order |-> << >>, idx |-> 0, result |-> EmptyMap, errors |-> EmptyMap,
     outcomes |-> EmptyMap]

\* result[key] = value
SetResult(frame, key, value) ==
    [frame EXCEPT !.result = Put(@, key, value),
                  !.obj = IF ResultIsInput THEN Put(@, key, value) ELSE @]

\* the position, from idx on, of the next field that is resolved; 0 if none
NextRefField(frame) ==
    LET is == {i \in frame.idx..Len(frame.order) :
                  IsRefField(frame.given, frame.order[i])}
    IN  IF is = {} THEN 0 ELSE CHOOSE i \in is : \A j \in is : i <= j

\* the loop reaches a reference field and calls resolveSecret(value, config)
RefsResolveField(p) ==
    /\ refs[p].pc = "loop"
    /\ NextRefField(refs[p]) # 0
    /\ LET i == NextRefField(refs[p]) IN
         /\ ResolveSecretBegin(p, refs[p].given[refs[p].order[i]].s,
                               refs[p].config)
         /\ refs' = [refs EXCEPT ![p].pc = "await", ![p].idx = i]
    /\ UNCHANGED <<now, ticks, secretsCache, passAvailable, passStore>>
    /\ UNCHANGED nonResolverVars

\* lines 195-199: the resolution of the field is there
AfterResolution(frame, key, resolution) ==
    IF resolution.ok /\ resolution.value # << >>
    THEN SetResult(frame, TargetKey(key), JsString(resolution.value))
    ELSE [frame EXCEPT !.errors = Put(@, key,
             IF "error" \in DOMAIN resolution /\ resolution.error # ""
             THEN resolution.error ELSE "Unknown error")]

\* resolveSecret has returned to the loop
RefsResume(p) ==
    /\ refs[p].pc = "await"
    /\ call[p].pc = "done"
    /\ LET key == refs[p].order[refs[p].idx]
           resolution == call[p].result[1]
           after == AfterResolution(refs[p], key, resolution)
       IN  refs' = [refs EXCEPT ![p] =
               [after EXCEPT !.pc = "loop", !.idx = @ + 1,
                             !.outcomes = Put(@, key, resolution)]]
    /\ call' = [call EXCEPT ![p] = IdleCall]
    /\ UNCHANGED <<now, ticks, secretsCache, backendInstances, passAvailable,
                   passStore>>
    /\ UNCHANGED nonResolverVars

\* lines 203-207: after the loop
Finish(frame) ==
    IF frame.errors # EmptyMap
    THEN SetResult(frame, SecretErrorsKey, JsObject(frame.errors))
    ELSE frame

\* the loop is over and resolveSecretRefs returns result
RefsReturn(p) ==
    /\ refs[p].pc = "loop"
    /\ NextRefField(refs[p]) = 0
    /\ refs' = [refs EXCEPT ![p] = [Finish(refs[p]) EXCEPT !.pc = "done"]]
    /\ UNCHANGED <<now, ticks, secretsCache, backendInstances, passAvailable,
                   passStore, call>>
    /\ UNCHANGED nonResolverVars

-----------------------------------------------------------------------------
(* Callers of resolveSecret, the clock and the password store              *)

\* how often the clock advances
MaxTicks == 2

\* the callers: one that calls resolveSecret, one that calls resolveSecretRefs
DirectCallers == {"c1"}
RefsCallers == {"r1"}
Callers == DirectCallers \cup RefsCallers

\* the strings of the model
Str_a == <<"a">>
Str_b == <<"b">>
V1 == <<"v", "1">>
V2 == <<"v", "2">>
Ref_pass_a == <<"p", "a", "s", "s", ":", "a">>
Ref_pass_b == <<"p", "a", "s", "s", ":", "b">>
Ref_vault_a == <<"v", "a", "u", "l", "t", ":", "a">>
Ref_ganesh_p == <<"g", "a", "n", "e", "s", "h", ":", "p">>
Ref_empty == << >>

\* the references and configurations the direct callers draw from
DirectRefs == {Ref_pass_a, Ref_vault_a, Ref_ganesh_p, Ref_empty}
Configs == {Undefined, "pass", "ganesh"}

\* a caller calls resolveSecret(ref, config)
StartResolve(p) ==
    /\ call[p].pc = "idle"
    /\ \E ref \in DirectRefs, config \in Configs :
         ResolveSecretBegin(p, ref, config)
    /\ UNCHANGED <<now, ticks, secretsCache, passAvailable, passStore, refs>>
    /\ UNCHANGED nonResolverVars

\* the caller has taken the result of its call
TakeResult(p) ==
    /\ call[p].pc = "done"
    /\ call' = [call EXCEPT ![p] = IdleCall]
    /\ UNCHANGED <<now, ticks, secretsCache, backendInstances, passAvailable,
                   passStore, refs>>
    /\ UNCHANGED nonResolverVars

\* time passes: a millisecond, or one millisecond less than the TTL
Tick ==
    /\ ticks < MaxTicks
    /\ \E d \in {1, CACHE_TTL_MS - 1} : now' = now + d
    /\ ticks' = ticks + 1
    /\ UNCHANGED <<secretsCache, backendInstances, passAvailable, passStore,
                   call, refs>>
    /\ UNCHANGED nonResolverVars

\* pass is installed, removed, initialised
PassAvailabilityChanges ==
    /\ passAvailable' = ~passAvailable
    /\ UNCHANGED <<now, ticks, secretsCache, backendInstances, passStore,
                   call, refs>>
    /\ UNCHANGED nonResolverVars

\* an entry of the password store is inserted, changed or removed
PassStoreChanges(paths, values) ==
    /\ \E path \in paths :
         \/ \E v \in values :
              /\ ~(Has(passStore, path) /\ passStore[path] = v)
              /\ passStore' = Put(passStore, path, v)
         \/ /\ Has(passStore, path)
            /\ passStore' = Remove(passStore, path)
    /\ UNCHANGED <<now, ticks, secretsCache, backendInstances, passAvailable,
                   call, refs>>
    /\ UNCHANGED nonResolverVars

\* the keys of the objects given to resolveSecretRefs, in the order of their
\* fields
Key_tRef == <<"t", "R", "e", "f">>
Key_t == <<"t">>
Key_uRef == <<"u", "R", "e", "f">>
Key_tRefRef == <<"t", "R", "e", "f", "R", "e", "f">>
Key_n == <<"n">>
KeyOrder == <<Key_tRef, Key_t, Key_uRef, Key_tRefRef, Key_n, SecretErrorsKey>>

Absent == [t |-> "absent", s |-> << >>, m |-> EmptyMap]

\* the values each key may have in a given object
FieldChoices(key) ==
    CASE key = Key_tRef ->
            {Absent, JsString(Ref_pass_a), JsString(Ref_vault_a), JsNumber}
      [] key = Key_t -> {Absent, JsString(<<"o">>)}
      [] key = Key_uRef -> {Absent, JsString(Ref_pass_b)}
      [] key = Key_tRefRef -> {Absent, JsString(Ref_pass_b)}
      [] key = Key_n -> {Absent, JsNumber}
      [] key = SecretErrorsKey ->
            {Absent, JsObject([k \in {Key_tRef} |-> "old error"])}

KeySet == {KeyOrder[i] : i \in 1..Len(KeyOrder)}

\* the object with the fields that a choice does not leave absent
ObjectOf(choice) ==
    [k \in {x \in KeySet : choice[x] # Absent} |-> choice[k]]

GivenObjects ==
    {ObjectOf(c) : c \in {f \in [KeySet -> UNION {FieldChoices(k) : k \in KeySet}] :
                             \A k \in KeySet : f[k] \in FieldChoices(k)}}

\* Object.entries(obj): the keys of obj in the order of KeyOrder
EntriesOrder(obj) == SelectSeq(KeyOrder, LAMBDA k : Has(obj, k))

\* a caller calls resolveSecretRefs(obj, config)
StartRefs(p) ==
    /\ refs[p].pc = "idle"
    /\ \E obj \in GivenObjects, config \in {Undefined} :
         refs' = [refs EXCEPT ![p] =
             [IdleRefs EXCEPT !.pc = "loop", !.given = obj, !.obj = obj,
                              !.config = config, !.order = EntriesOrder(obj),
                              !.idx = 1, !.result = obj]]
    /\ UNCHANGED <<now, ticks, secretsCache, backendInstances, passAvailable,
                   passStore, call>>
    /\ UNCHANGED nonResolverVars

\* the caller has taken the object returned
TakeRefsResult(p) ==
    /\ refs[p].pc = "done"
    /\ refs' = [refs EXCEPT ![p] = IdleRefs]
    /\ UNCHANGED <<now, ticks, secretsCache, backendInstances, passAvailable,
                   passStore, call>>
    /\ UNCHANGED nonResolverVars

ResolverInit ==
    /\ now = 0
    /\ ticks = 0
    /\ secretsCache = EmptyMap
    /\ backendInstances = EmptyMap
    /\ passAvailable \in BOOLEAN
    /\ passStore \in {EmptyMap, [x \in {Str_a} |-> V1]}
    /\ call = [p \in Callers |-> IdleCall]
    /\ refs = [p \in Callers |-> IdleRefs]

ResolverNext ==
    \/ \E p \in DirectCallers : StartResolve(p)
    \/ \E p \in DirectCallers : IsAvailableReturns(p)
    \/ \E p \in DirectCallers : ResolveReturns(p)
    \/ \E p \in DirectCallers : TakeResult(p)
    \/ ClearSecretsCache
    \/ Tick
    \/ PassAvailabilityChanges
    \/ PassStoreChanges({Str_a}, {V1, V2})

RefsNext ==
    \/ \E p \in RefsCallers : StartRefs(p)
    \/ \E p \in RefsCallers : RefsResolveField(p)
    \/ \E p \in RefsCallers : IsAvailableReturns(p)
    \/ \E p \in RefsCallers : ResolveReturns(p)
    \/ \E p \in RefsCallers : RefsResume(p)
    \/ \E p \in RefsCallers : RefsReturn(p)
    \/ \E p \in RefsCallers : TakeRefsResult(p)
    \/ PassAvailabilityChanges
    \/ PassStoreChanges({Str_a, Str_b}, {V1})

-----------------------------------------------------------------------------
(* Inputs of parseSecretRef: [backend:]path[#field]                        *)

\* longest path and field drawn
MaxPathLen == 2
MaxFieldLen == 2

PathChars == {"a", "/", ":", "-"}
FieldChars == {"f", "_", "-"}

SeqsUpTo(S, n) == UNION {[1..k -> S] : k \in 0..n}

NoPrefix == "none"
NoField == <<"?">>

\* the reference string written from its parts
Compose(b, path, field) ==
    Cat(IF b = NoPrefix THEN <<>> ELSE Cat(TypeChars(b), <<":">>),
        Cat(path, IF field = NoField THEN <<>> ELSE Cat(<<"#">>, field)))

ParseInputs ==
    {[b |-> b, path |-> p, field |-> f, dflt |-> d, ref |-> Compose(b, p, f)] :
        b \in SecretsBackendType \cup {NoPrefix},
        p \in SeqsUpTo(PathChars, MaxPathLen),
        f \in SeqsUpTo(FieldChars, MaxFieldLen) \cup {NoField},
        d \in {"pass", "file"}}

ParseInit ==
    /\ pIn \in ParseInputs
    /\ pOut = << >>

\* the state of the parse variables in the specifications that do not use them
ParseIdle ==
    /\ pIn = [b |-> NoPrefix, path |-> << >>, field |-> NoField,
              dflt |-> "pass", ref |-> << >>]
    /\ pOut = << >>

\* the state of the resolver variables in the specifications that do not use
\* them
ResolverIdle ==
    /\ now = 0
    /\ ticks = 0
    /\ secretsCache = EmptyMap
    /\ backendInstances = EmptyMap
    /\ passAvailable = FALSE
    /\ passStore = EmptyMap
    /\ call = [p \in Callers |-> IdleCall]
    /\ refs = [p \in Callers |-> IdleRefs]

-----------------------------------------------------------------------------
(* backends/ganesh.ts: the GaneshBackend vault                             *)

\* the secret ids of the vault model: one of a tier-3 group, one of no
\* group, and the id under which getMfaConfig looks up the bot token
Path_t == <<"t">>
Path_p == <<"p">>
BotTokenPath == <<"b", "o", "t">>
VG1 == <<"g", "1">>
VG2 == <<"g", "2">>
VG3 == <<"g", "3">>

\* manifests (VaultManifest): the groups in file order, and defaultTier
Group(id, tier, secrets) == [id |-> id, tier |-> tier, secrets |-> secrets]

Manifest_A == [groups |-> <<Group("g3", 3, {Path_t})>>, defaultTier |-> 1]
Manifest_B == [groups |-> <<Group("g1", 1, {Path_p})>>, defaultTier |-> 3]
Manifest_D == [groups |-> << >>, defaultTier |-> 1]
Manifest_C ==
    [groups |-> <<Group("default", 1, {Path_p}), Group("g3", 3, {Path_t})>>,
     defaultTier |-> 1]

\* the groups of manifest m that list secretId, in file order
GroupsOf(m, secretId) ==
    SelectSeq(m.groups, LAMBDA g : secretId \in g.secrets)

\* a variant of getSecretTier in which the last group that lists the secret
\* decides
getSecretTier_LastGroup(manifest, secretId) ==
    IF manifest = << >> THEN 1
    ELSE IF GroupsOf(manifest[1], secretId) # << >>
         THEN GroupsOf(manifest[1], secretId)[
                  Len(GroupsOf(manifest[1], secretId))].tier
         ELSE manifest[1].defaultTier

\* getSecretTier(secretId), manifest being << >> (null) or <<m>>
getSecretTier(manifest, secretId) ==
    IF manifest = << >> THEN 1
    ELSE IF GroupsOf(manifest[1], secretId) # << >>
         THEN GroupsOf(manifest[1], secretId)[1].tier
         ELSE manifest[1].defaultTier

\* the manifest that updateManifest(secretId) writes, given the one it read
updateManifest(m, secretId) ==
    LET found == {i \in 1..Len(m.groups) : m.groups[i].id = "default"}
        groups == IF found = {}
                  THEN Append(m.groups, Group("default", 1, {}))
                  ELSE m.groups
        i == IF found = {} THEN Len(groups)
             ELSE CHOOSE x \in found : \A y \in found : x <= y
    IN  [m EXCEPT !.groups =
            [groups EXCEPT ![i].secrets = @ \cup {secretId}]]

\* getMfaConfig(): TRUE when it returns a configuration, FALSE when null.
\* With mfa-config.json the configuration is read from it; without, it needs
\* the bot token in this.secretsCache and the file totp.key
getMfaConfig(disk, cache) ==
    IF disk.mfaConfigFile THEN TRUE
    ELSE Has(cache, BotTokenPath) /\ disk.totpKey

\* isAvailable(): the three vault files exist and 'which age' succeeds
GaneshIsAvailable(disk, execFails) ==
    /\ disk.manifest # << >>
    /\ disk.secretsFile
    /\ disk.identity
    /\ ~execFails

\* the fields of a new GaneshBackend, and of one after lock()
LockedVault ==
    [unlocked |-> FALSE, secretKey |-> Null, publicKey |-> Null,
     secretsCache |-> EmptyMap, manifest |-> << >>]

\* the frame of a call on the vault.  op: resolve, store or unlock; ret: what
\* the unlock() inside it returned; mfa: how far the approval exchange of
\* this call has come; snap: the store that saveSecrets serialized; again:
\* the caller's call before this one was a resolve of the same path that
\* returned a value; tier: what getSecretTier returned to this call (0 before)
IdleVCall ==
    [op |-> "idle", pc |-> "idle", path |-> << >>, value |-> << >>,
     mfa |-> "none", snap |-> EmptyMap, result |-> << >>, again |-> FALSE,
     tier |-> 0]

Done(frame, result) ==
    [frame EXCEPT !.pc = "done", !.snap = EmptyMap, !.result = <<result>>]

\* a variant of UnlockFailed in which the caller takes the unlock for done
UnlockFailed_ReportsSuccess(frame) ==
    Done(frame, IF frame.op = "resolve" THEN <<"?">>
                ELSE IF frame.op = "list" THEN {<<"?">>} ELSE TRUE)

\* what resolve, store, list and unlock return when unlock() returned false
UnlockFailed(frame) ==
    Done(frame, IF frame.op = "resolve" THEN Null
                ELSE IF frame.op = "list" THEN {} ELSE FALSE)

\* this.secretsCache.get(id) ?? null
VaultGet(v, id) == IF Has(v.secretsCache, id) THEN v.secretsCache[id] ELSE Null

\* lines 526-535 and 542-554: resolve from the tier check on, up to the
\* return or to the call of sendTelegramApprovalRequest
ResolveBody(v, disk, frame) ==
    LET tier == getSecretTier(v.manifest, frame.path)
        fr == [frame EXCEPT !.tier = tier]
    IN  IF tier < 3
        THEN [v |-> v, f |-> Done(fr, VaultGet(v, frame.path))]
        ELSE IF getMfaConfig(disk, v.secretsCache)
             THEN [v |-> v, f |-> [fr EXCEPT !.pc = "send", !.mfa = "requested"]]
             ELSE [v |-> v, f |-> Done(fr, Null)]

\* lines 588-589 and 485-508: store from the try block on, up to the return
\* or to the exec of 'age -r' in saveSecrets
StoreBody(v, frame) ==
    LET cache == Put(v.secretsCache, frame.path, frame.value)
        set == [v EXCEPT !.secretsCache = cache]
    IN  IF v.secretKey = Null \/ v.publicKey = Null
        THEN [v |-> set, f |-> Done(frame, FALSE)]
        ELSE [v |-> set, f |-> [frame EXCEPT !.pc = "save", !.snap = cache]]

\* what follows 'await this.unlock()' when unlock() returned true
AfterUnlockBody(v, disk, frame) ==
    CASE frame.op = "resolve" -> ResolveBody(v, disk, frame)
      [] frame.op = "store" -> StoreBody(v, frame)
      [] frame.op = "list" -> [v |-> v, f |-> Done(frame, DOMAIN v.secretsCache)]
      [] OTHER -> [v |-> v, f |-> Done(frame, TRUE)]

\* lines 419-425: unlock() of a vault that is not unlocked, up to the exec of
\* age-keygen; reading identity.key throws when the file is missing
UnlockBegin(v, disk, frame) ==
    IF disk.identity
    THEN [v |-> [v EXCEPT !.secretKey = <<"key">>],
          f |-> [frame EXCEPT !.pc = "keygen"]]
    ELSE [v |-> v, f |-> UnlockFailed(frame)]

\* a call that unlocks first when the vault is not unlocked
BeginCall(v, disk, frame) ==
    IF v.unlocked
    THEN AfterUnlockBody(v, disk, frame)
    ELSE UnlockBegin(v, disk, frame)

\* a caller calls resolve(path), as its first call or right after the call
\* that has returned to it
VResolveStart(p) ==
    /\ vcall[p].pc \in {"idle", "done"}
    /\ \E path \in {Path_t, Path_p} :
         LET again == /\ vcall[p].pc = "done"
                      /\ vcall[p].op = "resolve"
                      /\ vcall[p].path = path
                      /\ vcall[p].result # <<Null>>
             r == BeginCall(vault, vdisk,
                     [IdleVCall EXCEPT !.op = "resolve", !.path = path,
                                       !.again = again])
         IN  /\ vault' = r.v
             /\ vcall' = [vcall EXCEPT ![p] = r.f]
    /\ UNCHANGED vdisk
    /\ UNCHANGED nonVaultVars

\* a caller calls store(path, value)
VStoreStart(p) ==
    /\ vcall[p].pc = "idle"
    /\ \E path \in {Path_t, Path_p} :
         LET r == BeginCall(vault, vdisk,
                     [IdleVCall EXCEPT !.op = "store", !.path = path,
                                       !.value = VG3])
         IN  /\ vault' = r.v
             /\ vcall' = [vcall EXCEPT ![p] = r.f]
    /\ UNCHANGED vdisk
    /\ UNCHANGED nonVaultVars

\* a caller calls unlock()
VUnlockStart(p) ==
    /\ vcall[p].pc = "idle"
    /\ LET r == BeginCall(vault, vdisk, [IdleVCall EXCEPT !.op = "unlock"])
       IN  /\ vault' = r.v
           /\ vcall' = [vcall EXCEPT ![p] = r.f]
    /\ UNCHANGED vdisk
    /\ UNCHANGED nonVaultVars

\* a caller calls list()
VListStart(p) ==
    /\ vcall[p].pc = "idle"
    /\ LET r == BeginCall(vault, vdisk, [IdleVCall EXCEPT !.op = "list"])
       IN  /\ vault' = r.v
           /\ vcall' = [vcall EXCEPT ![p] = r.f]
    /\ UNCHANGED vdisk
    /\ UNCHANGED nonVaultVars

\* lines 425-435 and 457-466: age-keygen has returned; the public key and the
\* manifest are set, and loadSecrets runs up to the exec of 'age -d'.
\* age-keygen may fail, and so may JSON.parse of manifest.json, after the
\* public key is set
KeygenReturns(p) ==
    /\ vcall[p].pc = "keygen"
    /\ \E execFails \in BOOLEAN, parseFails \in BOOLEAN :
         IF execFails
         THEN /\ vcall' = [vcall EXCEPT ![p] = UnlockFailed(@)]
              /\ UNCHANGED vault
         ELSE IF parseFails /\ vdisk.manifest # << >>
         THEN /\ vcall' = [vcall EXCEPT ![p] = UnlockFailed(@)]
              /\ vault' = [vault EXCEPT !.publicKey = <<"pub">>]
         ELSE LET v == [vault EXCEPT
                          !.publicKey = <<"pub">>,
                          !.manifest = IF vdisk.manifest # << >>
                                       THEN vdisk.manifest ELSE @]
              IN  /\ vault' = v
                  /\ vcall' = [vcall EXCEPT ![p] =
                        IF v.secretKey = Null THEN UnlockFailed(@)
                        ELSE [@ EXCEPT !.pc = "decrypt"]]
    /\ UNCHANGED vdisk
    /\ UNCHANGED nonVaultVars

\* lines 466-475 and 437-438: 'age -d' has returned; the secrets are loaded,
\* unlocked is set and unlock() returns true
DecryptReturns(p) ==
    /\ vcall[p].pc = "decrypt"
    /\ \E execFails \in BOOLEAN :
         IF execFails \/ ~vdisk.secretsFile
         THEN /\ vcall' = [vcall EXCEPT ![p] = UnlockFailed(@)]
              /\ UNCHANGED vault
         ELSE /\ vault' = [vault EXCEPT !.secretsCache = vdisk.secrets,
                                        !.unlocked = TRUE]
              /\ vcall' = [vcall EXCEPT ![p].pc = "afterUnlock"]
    /\ UNCHANGED vdisk
    /\ UNCHANGED nonVaultVars

\* the caller of unlock() goes on after its await
AfterUnlock(p) ==
    /\ vcall[p].pc = "afterUnlock"
    /\ LET r == AfterUnlockBody(vault, vdisk, vcall[p])
       IN  /\ vault' = r.v
           /\ vcall' = [vcall EXCEPT ![p] = r.f]
    /\ UNCHANGED vdisk
    /\ UNCHANGED nonVaultVars

\* lines 554-567: sendTelegramApprovalRequest has returned
SendReturns(p) ==
    /\ vcall[p].pc = "send"
    /\ \E sent \in BOOLEAN :
         vcall' = [vcall EXCEPT ![p] =
             IF sent THEN [@ EXCEPT !.pc = "poll"] ELSE Done(@, Null)]
    /\ UNCHANGED <<vault, vdisk>>
    /\ UNCHANGED nonVaultVars

\* lines 562-577: pollTelegramApproval has returned
PollReturns(p) ==
    /\ vcall[p].pc = "poll"
    /\ \E approved \in BOOLEAN :
         vcall' = [vcall EXCEPT ![p] =
             IF approved
             THEN Done([@ EXCEPT !.mfa = "approved"], VaultGet(vault, @.path))
             ELSE Done([@ EXCEPT !.mfa = "denied"], Null)]
    /\ UNCHANGED <<vault, vdisk>>
    /\ UNCHANGED nonVaultVars

\* lines 507-509 and 592-594: 'age -r' has returned; secrets.age holds what
\* saveSecrets serialized, and updateManifest rewrites manifest.json
SaveReturns(p) ==
    /\ vcall[p].pc = "save"
    /\ \E execFails \in BOOLEAN :
         IF execFails
         THEN /\ vcall' = [vcall EXCEPT ![p] = Done(@, FALSE)]
              /\ UNCHANGED vdisk
         ELSE IF vdisk.manifest = << >>
         THEN /\ vcall' = [vcall EXCEPT ![p] = Done(@, FALSE)]
              /\ vdisk' = [vdisk EXCEPT !.secrets = vcall[p].snap,
                                        !.secretsFile = TRUE]
         ELSE /\ vcall' = [vcall EXCEPT ![p] = Done(@, TRUE)]
              /\ vdisk' = [vdisk EXCEPT
                    !.secrets = vcall[p].snap,
                    !.secretsFile = TRUE,
                    !.manifest = <<updateManifest(@[1], vcall[p].path)>>]
    /\ UNCHANGED vault
    /\ UNCHANGED nonVaultVars

\* lock()
Lock ==
    /\ vault # LockedVault
    /\ vault' = LockedVault
    /\ UNCHANGED <<vdisk, vcall>>
    /\ UNCHANGED nonVaultVars

\* the caller has taken what its call returned
TakeVaultResult(p) ==
    /\ vcall[p].pc = "done"
    /\ vcall' = [vcall EXCEPT ![p] = IdleVCall]
    /\ UNCHANGED <<vault, vdisk>>
    /\ UNCHANGED nonVaultVars

\* the callers of the vault: all of them resolve; one of them is the single
\* writer, which also calls unlock and list
VaultCallers == {"v1", "v2"}
VaultWriters == {"v1"}

\* a vault directory with its files
VaultDisk(manifest, mfaConfigFile) ==
    [manifest |-> <<manifest>>, secretsFile |-> TRUE, identity |-> TRUE,
     secrets |-> (Path_t :> VG1) @@ (Path_p :> VG2),
     mfaConfigFile |-> mfaConfigFile, totpKey |-> TRUE]

\* the vault directories of the initial states: the four manifests, the
\* one of Manifest_B without mfa-config.json and with the bot token as a
\* secret, and one directory without identity.key
VaultDisks ==
    {VaultDisk(m, TRUE) : m \in {Manifest_A, Manifest_C, Manifest_D}}
        \cup {[VaultDisk(Manifest_B, FALSE) EXCEPT
                  !.secrets = @ @@ (BotTokenPath :> VG3)],
              [VaultDisk(Manifest_A, TRUE) EXCEPT !.identity = FALSE]}

VaultInit ==
    /\ vdisk \in VaultDisks
    /\ vault = LockedVault
    /\ vcall = [p \in VaultCallers |-> IdleVCall]

\* the state of the vault variables during an approval exchange: the vault
\* is unlocked and resolveTier3 waits for the poll
VaultDuringExchange ==
    /\ vdisk = VaultDisk(Manifest_A, TRUE)
    /\ vault = [unlocked |-> TRUE, secretKey |-> <<"key">>,
                publicKey |-> <<"pub">>, secretsCache |-> vdisk.secrets,
                manifest |-> vdisk.manifest]
    /\ vcall = [p \in VaultCallers |-> IdleVCall]

\* the state of the vault variables in the specifications whose code never
\* calls the vault: its files are there and no GaneshBackend call is running
VaultAtRest ==
    /\ vdisk = VaultDisk(Manifest_A, TRUE)
    /\ vault = LockedVault
    /\ vcall = [p \in VaultCallers |-> IdleVCall]

VaultNext ==
    \/ \E p \in VaultCallers :
         \/ VResolveStart(p)
         \/ KeygenReturns(p)
         \/ DecryptReturns(p)
         \/ AfterUnlock(p)
         \/ SendReturns(p)
         \/ PollReturns(p)
         \/ SaveReturns(p)
         \/ TakeVaultResult(p)
    \/ \E p \in VaultWriters :
         \/ VStoreStart(p)
         \/ VUnlockStart(p)
         \/ VListStart(p)
    \/ Lock

\* the vault after a successful unlock(): the keys are set, the manifest and
\* the secrets of the directory are loaded, and no call is running
VaultUnlocked ==
    /\ vdisk \in {VaultDisk(m, TRUE) : m \in {Manifest_A, Manifest_C, Manifest_D}}
    /\ vault = [unlocked |-> TRUE, secretKey |-> <<"key">>,
                publicKey |-> <<"pub">>, secretsCache |-> vdisk.secrets,
                manifest |-> vdisk.manifest]
    /\ vcall = [p \in VaultCallers |-> IdleVCall]

\* the store calls of two callers of one unlocked GaneshBackend, each
\* suspended at the exec of 'age -r' until that process returns
StoresNext ==
    \E p \in VaultCallers :
        \/ VStoreStart(p)
        \/ SaveReturns(p)
        \/ TakeVaultResult(p)

-----------------------------------------------------------------------------
(* pollTelegramApproval (ganesh.ts) and the update feed of the bot         *)

\* config.timeoutMs ?? 60000
DEFAULT_TIMEOUT_MS == 60000

\* timeout: "10", the long poll of one getUpdates request, in milliseconds
LONG_POLL_MS == 10000

\* setTimeout(resolve, 2000)
BACKOFF_MS == 2000

\* how long a transport call can take: it returns at once (a round trip,
\* taken as two seconds) or when the long poll runs out
FetchDurations == {2000, LONG_POLL_MS}

\* how many updates the feed receives during one exchange
MaxUpdates == 2

Colon == ":"
Str_approve == <<"a", "p", "p", "r", "o", "v", "e">>
Str_deny == <<"d", "e", "n", "y">>
Str_later == <<"l", "a", "t", "e", "r">>
Str_undefined == <<"u", "n", "d", "e", "f", "i", "n", "e", "d">>

\* request ids as generateRequestId makes them (mfa_<time>_<random>): that of
\* the outstanding request, one that extends it, and another one
RequestId == <<"m", "f", "a", "_", "1">>
RequestId_Longer == Cat(RequestId, <<"0">>)
RequestId_Other == <<"m", "f", "a", "_", "2">>

\* callback_data: `${requestId}:approve`, `${requestId}:deny`
CallbackData(requestId, action) == Cat(requestId, Cat(<<Colon>>, action))

\* the chat the approval request was sent to, and another chat
ConfiguredChat == 7
OtherChat == 77

Digit(d) == <<"0", "1", "2", "3", "4", "5", "6", "7", "8", "9">>[d + 1]

\* String(n) of a non-negative integer
RECURSIVE NumberToString(_)
NumberToString(n) ==
    IF n < 10 THEN <<Digit(n)>>
    ELSE Cat(NumberToString(n \div 10), <<Digit(n % 10)>>)

\* String(callback.message?.chat.id); chat is << >> when the callback has
\* no message
ChatString(chat) ==
    IF chat = << >> THEN Str_undefined ELSE NumberToString(chat[1])

\* s.split(":")[1], for a string s that contains a colon
SplitSecond(s) ==
    LET first == CHOOSE i \in Positions(s, Colon) :
                     \A j \in Positions(s, Colon) : i <= j
        rest == Drop(s, first)
    IN  IF Positions(rest, Colon) = {} THEN rest
        ELSE SubSeq(rest, 1,
                    (CHOOSE i \in Positions(rest, Colon) :
                        \A j \in Positions(rest, Colon) : i <= j) - 1)

\* a variant of IsForRequest that compares the request id without the colon
IsForRequest_NoColon(data, requestId) == StartsWith(data, requestId)

\* callback.data.startsWith(requestId + ":")
IsForRequest(data, requestId) == StartsWith(data, Cat(requestId, <<Colon>>))

\* the tests an update passes before its action is looked at; data is << >>
\* when the callback carries none
PassesFilters(config, requestId, update) ==
    /\ update.data # << >>
    /\ update.data[1] # << >>
    /\ ChatString(update.chat) = config.chatId
    /\ IsForRequest(update.data[1], requestId)

\* whether the loop over the updates returns at this update
Accepts(config, requestId, update) ==
    /\ PassesFilters(config, requestId, update)
    /\ SplitSecond(update.data[1]) \in {Str_approve, Str_deny}

\* for (const update of data.result || []): the cursor after the loop and the
\* update at which the loop returned, if any
RECURSIVE ProcessUpdates(_, _, _, _, _)
ProcessUpdates(config, requestId, batch, i, last) ==
    IF i > Len(batch) THEN [lastUpdateId |-> last, accepted |-> << >>]
    ELSE IF Accepts(config, requestId, batch[i])
         THEN [lastUpdateId |-> batch[i].update_id + 1,
               accepted |-> <<batch[i]>>]
         ELSE ProcessUpdates(config, requestId, batch, i + 1,
                             batch[i].update_id + 1)

\* the frame of the call before it starts; lastUpdateId 0 is undefined,
\* offset is the parameter of the request under way, calls are the
\* best-effort calls made so far, and returned is what resolveTier3, the
\* caller of the poll, has returned
IdlePoll ==
    [pc |-> "idle", config |-> [chatId |-> << >>, timeoutMs |-> << >>],
     requestId |-> << >>, timeoutMs |-> 0, startTime |-> 0,
     lastUpdateId |-> 0, offset |-> << >>, accepted |-> << >>,
     result |-> << >>, calls |-> << >>, returned |-> << >>]

\* the bot's side before the exchange: no pending update, no callback
\* acknowledged, the status of the request message not edited, and
\* messages approval requests received
EmptyFeed(messages) ==
    [updates |-> << >>, nextId |-> 1, answered |-> FALSE, edited |-> << >>,
     messages |-> messages]

\* the three results of pollTelegramApproval
Approved == [approved |-> TRUE, error |-> << >>]
Denied == [approved |-> FALSE, error |-> <<"Request denied by user">>]
TimedOut == [approved |-> FALSE, error |-> <<"Approval request timed out">>]

\* a variant of OnNotOk in which a response that is not ok ends the poll
OnNotOk_Terminal(frame, t) ==
    [frame EXCEPT !.pc = "done",
                  !.result = <<[approved |-> FALSE, error |-> <<"not ok">>]>>]

\* the head of the while loop at time t: the next getUpdates request is sent
\* with the cursor as offset, or the call returns 'timed out'
LoopHead(frame, t) ==
    IF t - frame.startTime < frame.timeoutMs
    THEN [frame EXCEPT !.pc = "fetch",
                       !.offset = IF frame.lastUpdateId # 0
                                  THEN <<frame.lastUpdateId>> ELSE << >>]
    ELSE [frame EXCEPT !.pc = "done", !.result = <<TimedOut>>]

\* if (!data.ok) continue;
OnNotOk(frame, t) == LoopHead(frame, t)

\* what getUpdates answers for an offset: the pending updates from that id on
Pending(updates, offset) ==
    IF offset = << >> THEN updates
    ELSE SelectSeq(updates, LAMBDA u : u.update_id >= offset[1])

\* the call pollTelegramApproval(config, requestMessageId, requestId, ...)
\* up to its first await
PollStart ==
    /\ poll.pc = "idle"
    /\ poll' = LoopHead([poll EXCEPT
                            !.timeoutMs = IF poll.config.timeoutMs = << >>
                                          THEN DEFAULT_TIMEOUT_MS
                                          ELSE poll.config.timeoutMs[1],
                            !.startTime = clock],
                        clock)
    /\ UNCHANGED <<feed, clock>>
    /\ UNCHANGED nonPollVars

\* the getUpdates request fails (fetch or response.json() rejects): the catch
\* block, then the backoff
GetUpdatesFails ==
    /\ poll.pc = "fetch"
    /\ \E d \in FetchDurations : clock' = clock + d
    /\ poll' = [poll EXCEPT !.pc = "sleep"]
    /\ UNCHANGED feed
    /\ UNCHANGED nonPollVars

\* the getUpdates request is answered with ok: false
GetUpdatesNotOk ==
    /\ poll.pc = "fetch"
    /\ \E d \in FetchDurations :
         /\ clock' = clock + d
         /\ poll' = OnNotOk(poll, clock + d)
    /\ UNCHANGED feed
    /\ UNCHANGED nonPollVars

\* the getUpdates request is answered with ok: true and the pending updates;
\* the feed forgets the updates below the offset
GetUpdatesReturns ==
    /\ poll.pc = "fetch"
    /\ \E d \in FetchDurations : clock' = clock + d
    /\ LET batch == Pending(feed.updates, poll.offset)
           after == ProcessUpdates(poll.config, poll.requestId, batch, 1,
                                   poll.lastUpdateId)
       IN  /\ feed' = [feed EXCEPT !.updates = batch]
           /\ poll' = [poll EXCEPT
                          !.lastUpdateId = after.lastUpdateId,
                          !.accepted = after.accepted,
                          !.pc = IF after.accepted # << >> THEN "answer"
                                 ELSE "sleep"]
    /\ UNCHANGED nonPollVars

\* a variant of BestEffort in which a failed call throws into the try block
\* of the poll loop
BestEffort_Throws(frame, next, ok) ==
    IF ok THEN next ELSE [frame EXCEPT !.pc = "sleep"]

\* try { await fetch(...) } catch { /* Best effort */ }: the caller goes on
\* with next whether or not the call succeeded
BestEffort(frame, next, ok) == next

\* whether the accepted update is the approve button
ApproveAccepted(frame) ==
    SplitSecond(frame.accepted[1].data[1]) = Str_approve

\* await answerCallbackQuery(...) has returned; ok: the request reached the
\* bot API and the callback is acknowledged
AnswerReturns ==
    /\ poll.pc = "answer"
    /\ \E d \in FetchDurations : clock' = clock + d
    /\ \E ok \in BOOLEAN :
         /\ poll' = BestEffort(poll,
                        [poll EXCEPT
                            !.pc = "edit",
                            !.calls = Append(@, "answerCallbackQuery")],
                        ok)
         /\ feed' = [feed EXCEPT !.answered = @ \/ ok]
    /\ UNCHANGED nonPollVars

\* await editMessageAfterApproval(...) has returned, then the return of the
\* poll; ok: the request message now shows the status
EditReturns ==
    /\ poll.pc = "edit"
    /\ \E d \in FetchDurations : clock' = clock + d
    /\ \E ok \in BOOLEAN :
         /\ poll' = BestEffort(poll,
                        [poll EXCEPT
                            !.pc = "done",
                            !.calls = Append(@, "editMessageText"),
                            !.result = IF ApproveAccepted(poll)
                                       THEN <<Approved>> ELSE <<Denied>>],
                        ok)
         /\ feed' = [feed EXCEPT
                        !.edited = IF ~ok THEN @
                                   ELSE IF ApproveAccepted(poll)
                                        THEN <<"APPROVED">>
                                        ELSE <<"DENIED">>]
    /\ UNCHANGED nonPollVars

\* resolveTier3 after await pollTelegramApproval(...): null unless approved,
\* else the secret from the in-memory map; it sends nothing
ApprovalReturns ==
    /\ poll.pc = "done"
    /\ poll.returned = << >>
    /\ poll' = [poll EXCEPT
                   !.returned = IF poll.result[1].approved
                                THEN <<VaultGet(vault, Path_t)>>
                                ELSE <<Null>>]
    /\ UNCHANGED <<feed, clock>>
    /\ UNCHANGED nonPollVars

\* await new Promise((resolve) => setTimeout(resolve, 2000)), then the head
\* of the loop
BackoffElapses ==
    /\ poll.pc = "sleep"
    /\ clock' = clock + BACKOFF_MS
    /\ poll' = LoopHead(poll, clock + BACKOFF_MS)
    /\ UNCHANGED feed
    /\ UNCHANGED nonPollVars

\* the callbacks that reach the bot during the exchange: the two buttons of
\* the request pressed in the configured chat, in another chat or without a
\* message; a button of another request; other data; no data
UpdateKinds ==
    {[data |-> <<CallbackData(RequestId, a)>>, chat |-> c] :
        a \in {Str_approve, Str_deny},
        c \in {<<ConfiguredChat>>}}
        \cup {[data |-> <<CallbackData(RequestId, Str_approve)>>, chat |-> c] :
                 c \in {<<OtherChat>>, << >>}}
        \cup {[data |-> <<CallbackData(r, Str_approve)>>,
               chat |-> <<ConfiguredChat>>] :
                 r \in {RequestId_Longer, RequestId_Other}}
        \cup {[data |-> d, chat |-> <<ConfiguredChat>>] :
                 d \in {<<CallbackData(RequestId, Str_later)>>, << >>}}

\* somebody presses a button: the feed gets an update with the next id
FeedReceives ==
    /\ feed.nextId <= MaxUpdates
    /\ \E k \in UpdateKinds :
         feed' = [feed EXCEPT
                     !.updates = Append(@, [update_id |-> feed.nextId,
                                            data |-> k.data, chat |-> k.chat]),
                     !.nextId = @ + 1]
    /\ UNCHANGED <<poll, clock>>
    /\ UNCHANGED nonPollVars

\* config.timeoutMs: absent, or shorter than one long poll
TimeoutChoices == {<< >>, <<6000>>}

PollInit ==
    /\ poll \in {[IdlePoll EXCEPT
                     !.config = [chatId |-> NumberToString(ConfiguredChat),
                                 timeoutMs |-> t],
                     !.requestId = RequestId] : t \in TimeoutChoices}
    /\ feed = EmptyFeed(1)
    /\ clock = 0

\* the state of the poll variables in the specifications that do not run
\* the poll
PollIdle ==
    /\ poll = IdlePoll
    /\ feed = EmptyFeed(0)
    /\ clock = 0

\* the steps of the poll itself
PollStep ==
    \/ PollStart
    \/ GetUpdatesFails
    \/ GetUpdatesNotOk
    \/ GetUpdatesReturns
    \/ AnswerReturns
    \/ EditReturns
    \/ BackoffElapses
    \/ ApprovalReturns

PollNext ==
    \/ PollStep
    \/ FeedReceives

-----------------------------------------------------------------------------
(* generateRequestId and the approval requests outstanding for one vault   *)

Str_mfa_ == <<"m", "f", "a", "_">>

\* Math.random().toString(36).slice(2, 8): lower-case letters and digits
RandomSuffixes == {<<"x", "7">>, <<"q">>}

\* `mfa_${Date.now()}_${Math.random().toString(36).slice(2, 8)}`
generateRequestId(time, random) ==
    Cat(Str_mfa_, Cat(NumberToString(time), Cat(<<"_">>, random)))

\* the resolve calls that can be in their approval exchange at the same time
Requesters == {"q1", "q2"}

\* how far Date.now() advances while requests are made
MaxIdClock == 3

\* sendTelegramApprovalRequest: requester p makes the id of its request
SendApprovalRequest(p) ==
    /\ mfaRequests[p] = << >>
    /\ \E random \in RandomSuffixes :
         mfaRequests' = [mfaRequests EXCEPT
                            ![p] = <<generateRequestId(clock, random)>>]
    /\ UNCHANGED clock
    /\ UNCHANGED nonIdVars

\* the exchange of requester p ends (approved, denied or timed out)
ExchangeEnds(p) ==
    /\ mfaRequests[p] # << >>
    /\ mfaRequests' = [mfaRequests EXCEPT ![p] = << >>]
    /\ UNCHANGED clock
    /\ UNCHANGED nonIdVars

\* a millisecond passes
IdClockTick ==
    /\ clock < MaxIdClock
    /\ clock' = clock + 1
    /\ UNCHANGED mfaRequests
    /\ UNCHANGED nonIdVars

IdsIdle == mfaRequests = [p \in Requesters |-> << >>]

IdsNext ==
    \/ \E p \in Requesters : SendApprovalRequest(p) \/ ExchangeEnds(p)
    \/ IdClockTick

-----------------------------------------------------------------------------
(* generateTotp and verifyTotp (ganesh.ts)                                 *)

\* the time step: Math.floor(time / 1000 / 30), i * 30 * 1000
TOTP_STEP_MS == 30000

\* code % 1000000
CODE_MODULUS == 1000000

\* const base32Chars = "ABCDEFGHIJKLMNOPQRSTUVWXYZ234567"
base32Chars ==
    <<"A", "B", "C", "D", "E", "F", "G", "H", "I", "J", "K", "L", "M", "N",
      "O", "P", "Q", "R", "S", "T", "U", "V", "W", "X", "Y", "Z", "2", "3",
      "4", "5", "6", "7">>

\* toUpperCase, for the characters of the secrets of the model
ToUpperCase(c) == IF c = "b" THEN "B" ELSE c

\* secret.toUpperCase().replace(/[^A-Z2-7]/g, "")
RECURSIVE SecretUpper(_)
SecretUpper(secret) ==
    IF secret = << >> THEN << >>
    ELSE LET c == ToUpperCase(Head(secret)) IN
         IF Positions(base32Chars, c) # {}
         THEN Cat(<<c>>, SecretUpper(Tail(secret)))
         ELSE SecretUpper(Tail(secret))

\* base32Chars.indexOf(char).toString(2).padStart(5, "0"), as bits
Bits5(char) ==
    LET n == (CHOOSE i \in Positions(base32Chars, char) : TRUE) - 1 IN
    <<(n \div 16) % 2, (n \div 8) % 2, (n \div 4) % 2, (n \div 2) % 2, n % 2>>

RECURSIVE SecretBits(_)
SecretBits(upper) ==
    IF upper = << >> THEN << >>
    ELSE Cat(Bits5(Head(upper)), SecretBits(Tail(upper)))

\* parseInt(bits.slice(i * 8, i * 8 + 8), 2)
RECURSIVE ParseBits(_)
ParseBits(bits) ==
    IF bits = << >> THEN 0
    ELSE 2 * ParseBits(SubSeq(bits, 1, Len(bits) - 1)) + bits[Len(bits)]

\* the decoded secret: Math.floor(bits.length / 8) bytes
secretBytes(secret) ==
    LET bits == SecretBits(SecretUpper(secret)) IN
    [i \in 1..(Len(bits) \div 8) |->
        ParseBits(SubSeq(bits, 8 * (i - 1) + 1, 8 * i))]

\* Math.floor((time ?? Date.now()) / 1000 / 30)
TotpCounter(time) == time \div TOTP_STEP_MS

\* s.padStart(n, "0")
RECURSIVE PadStart(_, _)
PadStart(str, n) == IF Len(str) >= n THEN str ELSE PadStart(Cat(<<"0">>, str), n)

\* generateTotp(secret, time), given the table of the keyed hash
generateTotp(table, secret, time) ==
    PadStart(NumberToString(
                 table[<<secretBytes(secret), TotpCounter(time)>>]
                     % CODE_MODULUS), 6)

\* a variant of WindowOffsets that looks at the past steps only
WindowOffsets_PastOnly(window) == (0 - window)..0

\* for (let i = -window; i <= window; i++)
WindowOffsets(window) == (0 - window)..window

\* verifyTotp(secret, token, window = 1) when Date.now() is dateNow
verifyTotp(table, secret, token, dateNow) ==
    \E i \in WindowOffsets(1) :
        generateTotp(table, secret, dateNow + i * 30 * 1000) = token

\* the 31-bit values the truncated hash takes in the model
HashSamples == {7, 1000007, 123456}

\* the table with the entries of key for the counters cs added, f giving
\* the values of those not yet computed
Computed(table, key, cs, f) ==
    [x \in DOMAIN table \cup {<<key, c>> : c \in cs} |->
        IF x \in DOMAIN table THEN table[x] ELSE f[x[2]]]

\* the shared secrets: two characters (one byte), with lower case, with a
\* character outside the alphabet, and one character (no byte)
TotpSecrets ==
    {<<"7", "7">>, <<"7", "B">>, <<"7", "b">>, <<"7", "-", "B">>, <<"B">>}

\* the times of generation and of verification
TotpTimes == {0, 29999, 30000, 59999, 60000, 90000, 119999}

IdleTotp ==
    [secret |-> << >>, genTime |-> 0, token |-> << >>, now |-> 0,
     verified |-> << >>]

\* the authenticator computes the code of the secret for its time
TotpGenerate ==
    /\ totp.token = << >>
    /\ \E f \in [{TotpCounter(totp.genTime)} -> HashSamples] :
         LET table == Computed(hmacTable, secretBytes(totp.secret),
                               {TotpCounter(totp.genTime)}, f)
         IN  /\ hmacTable' = table
             /\ totp' = [totp EXCEPT
                            !.token = <<generateTotp(table, totp.secret,
                                                     totp.genTime)>>]
    /\ UNCHANGED nonTotpVars

\* verifyTotp(secret, token) is called at time now
TotpVerify ==
    /\ totp.token # << >>
    /\ totp.verified = << >>
    /\ LET cs == {TotpCounter(totp.now + i * 30 * 1000) :
                     i \in WindowOffsets(1)}
       IN  \E f \in [cs -> HashSamples] :
             LET table == Computed(hmacTable, secretBytes(totp.secret), cs, f)
             IN  /\ hmacTable' = table
                 /\ totp' = [totp EXCEPT
                                !.verified = <<verifyTotp(table, totp.secret,
                                                          totp.token[1],
                                                          totp.now)>>]
    /\ UNCHANGED nonTotpVars

TotpInit ==
    /\ totp \in {[IdleTotp EXCEPT !.secret = k, !.genTime = t, !.now = n] :
                    k \in TotpSecrets, t \in TotpTimes, n \in TotpTimes}
    /\ hmacTable = EmptyMap

TotpIdle ==
    /\ totp = IdleTotp
    /\ hmacTable = EmptyMap

TotpNext ==
    \/ TotpGenerate
    \/ TotpVerify

-----------------------------------------------------------------------------
(* ganesh-policy-gate.ts: the pure parts                                   *)

\* \s, and the characters of the model that are not \w
SpaceChars == {" "}
NonWordChars == {" ", "=", "/", "-", "."}

\* the length of the longest prefix of s whose characters are in S
RunIn(s, S) ==
    CHOOSE n \in 0..Len(s) :
        /\ \A i \in 1..n : s[i] \in S
        /\ n < Len(s) => s[n + 1] \notin S

\* the length of the longest prefix of s whose characters are not in S
RunNotIn(s, S) ==
    CHOOSE n \in 0..Len(s) :
        /\ \A i \in 1..n : s[i] \notin S
        /\ n < Len(s) => s[n + 1] \in S

\* s without the characters of S at its end
DropTrailing(s, S) ==
    SubSeq(s, 1, CHOOSE n \in 0..Len(s) :
                     /\ \A i \in (n + 1)..Len(s) : s[i] \in S
                     /\ n > 0 => s[n] \notin S)

\* s.trim()
Trim(s) == DropTrailing(Drop(s, RunIn(s, SpaceChars)), SpaceChars)

\* F(e), with e evaluated once
With(e, F(_)) == CHOOSE r \in {F(v) : v \in {e}} : TRUE

\* the length of what \w+=\S+\s+ matches at the start of s, 0 if it does not
AssignmentLen(s) ==
    With(RunNotIn(s, NonWordChars), LAMBDA w :
    With(RunNotIn(Drop(s, w + 1), SpaceChars), LAMBDA v :
    With(RunIn(Drop(s, w + 1 + v), SpaceChars), LAMBDA sp :
        IF w >= 1 /\ Len(s) > w /\ s[w + 1] = "=" /\ v >= 1 /\ sp >= 1
        THEN w + 1 + v + sp ELSE 0)))

\* trimmed.replace(/^(\w+=\S+\s+)+/, "")
RECURSIVE StripAssignments(_)
StripAssignments(s) ==
    With(AssignmentLen(s), LAMBDA n :
        IF n = 0 THEN s ELSE StripAssignments(Drop(s, n)))

\* the length of what -\S+\s+ matches at the start of s, 0 if it does not
FlagLen(s) ==
    With(RunNotIn(Drop(s, 1), SpaceChars), LAMBDA v :
    With(RunIn(Drop(s, 1 + v), SpaceChars), LAMBDA sp :
        IF s # << >> /\ Head(s) = "-" /\ v >= 1 /\ sp >= 1
        THEN 1 + v + sp ELSE 0))

RECURSIVE StripFlags(_)
StripFlags(s) ==
    With(FlagLen(s), LAMBDA n : IF n = 0 THEN s ELSE StripFlags(Drop(s, n)))

\* withoutEnv.replace(/^sudo\s+(-\S+\s+)*/, "")
StripSudo(s) ==
    With(RunIn(Drop(s, 4), SpaceChars), LAMBDA sp :
        IF StartsWith(s, <<"s", "u", "d", "o">>) /\ sp >= 1
        THEN StripFlags(Drop(s, 4 + sp)) ELSE s)

\* path.basename(p): trailing slashes dropped, then what follows the last
\* slash
Basename(p) ==
    With(DropTrailing(p, {"/"}), LAMBDA q :
        IF Positions(q, "/") = {} THEN q
        ELSE Drop(q, Max(Positions(q, "/"))))

\* extractBaseCommand(command)
extractBaseCommand(command) ==
    With(Trim(command), LAMBDA trimmed :
    With(StripAssignments(trimmed), LAMBDA withoutEnv :
    With(StripSudo(withoutEnv), LAMBDA withoutSudo :
    With(RunNotIn(withoutSudo, SpaceChars), LAMBDA first :
        IF first = 0 THEN trimmed
        ELSE Basename(SubSeq(withoutSudo, 1, first))))))

\* c.toLowerCase(), for the letters of the model
LowerChar(c) ==
    CASE c = "A" -> "a" [] c = "L" -> "l" [] c = "O" -> "o" [] c = "W" -> "w"
      [] c = "D" -> "d" [] c = "E" -> "e" [] c = "N" -> "n" [] c = "Y" -> "y"
      [] c = "F" -> "f" [] OTHER -> c

ToLowerCase(s) == [i \in 1..Len(s) |-> LowerChar(s[i])]

Str_allow == <<"a", "l", "l", "o", "w">>
Str_ask == <<"a", "s", "k">>

\* the characters of a decision
Chars(decision) ==
    CASE decision = "allow" -> Str_allow
      [] decision = "deny" -> Str_deny
      [] decision = "ask" -> Str_ask
      [] OTHER -> << >>

\* a variant of normalizeAction that compares the action as it is written
normalizeAction_CaseSensitive(action) ==
    IF action = Str_allow THEN "allow"
    ELSE IF action = Str_deny THEN "deny"
    ELSE "ask"

\* normalizeAction(action)
normalizeAction(action) ==
    IF ToLowerCase(action) = Str_allow THEN "allow"
    ELSE IF ToLowerCase(action) = Str_deny THEN "deny"
    ELSE "ask"

\* whether the characters of t occur in s one after another: s.includes(t)
Includes(s, t) ==
    \E i \in 0..(Len(s) - Len(t)) : SubSeq(s, i + 1, i + Len(t)) = t

\* getNestedValue(details, condition.field) for a field without dots: << >>
\* is undefined (details does not have the field, or opts did not give it),
\* <<v>> the string v
getNestedValue(details, field) ==
    IF field \in DOMAIN details THEN details[field] ELSE << >>

\* a condition: value is the string of condition.value, values the list
\* when condition.value is a list (<< >> when it is not), valid whether the
\* string compiles as a regular expression; the patterns of the model have
\* no metacharacters, so that a valid one matches where it occurs
Condition(field, op, value) ==
    [field |-> field, op |-> op, value |-> value, values |-> << >>,
     valid |-> TRUE]

\* evaluateCondition(condition, details); the values of details are strings
\* or undefined, never numbers or arrays, so that gt and lt are false
evaluateCondition(condition, details) ==
    LET value == getNestedValue(details, condition.field) IN
    CASE condition.op = "eq" ->
            condition.values = << >> /\ value = <<condition.value>>
      [] condition.op = "neq" ->
            condition.values # << >> \/ value # <<condition.value>>
      [] condition.op = "contains" ->
            /\ value # << >>
            /\ condition.values = << >>
            /\ Includes(value[1], condition.value)
      [] condition.op = "matches" ->
            /\ value # << >>
            /\ condition.values = << >>
            /\ condition.valid
            /\ Includes(value[1], condition.value)
      [] condition.op = "in" ->
            /\ condition.values # << >>
            /\ value # << >>
            /\ \E i \in 1..Len(condition.values[1]) :
                  condition.values[1][i] = value[1]
      [] OTHER -> FALSE

\* a rule of the policy; priority and enabled are << >> when the rule does
\* not have them, description likewise.  The JSON text decides what a rule
\* is made of: hasConditions is whether it has a list of conditions,
\* actionIsString whether its action is a string
Rule(id, subject, conditions, action, priority, enabled) ==
    [id |-> id, subject |-> subject, conditions |-> conditions,
     action |-> action, priority |-> priority, enabled |-> enabled,
     description |-> << >>, hasConditions |-> TRUE, actionIsString |-> TRUE]

\* rule.priority || 0
PriorityOf(rule) ==
    IF rule.priority = << >> THEN 0 ELSE rule.priority[1]

\* a variant of SortsBefore in which, of two rules of the same priority, the
\* one declared later comes first
SortsBefore_LaterFirst(rules, j, i) ==
    \/ PriorityOf(rules[j]) > PriorityOf(rules[i])
    \/ PriorityOf(rules[j]) = PriorityOf(rules[i]) /\ j > i

\* whether rules[j] stands before rules[i] once the list is sorted by
\* (b.priority || 0) - (a.priority || 0): it has the higher priority, or the
\* same and is declared earlier (Array.prototype.toSorted is stable)
SortsBefore(rules, j, i) ==
    \/ PriorityOf(rules[j]) > PriorityOf(rules[i])
    \/ PriorityOf(rules[j]) = PriorityOf(rules[i]) /\ j < i

\* rules.toSorted((a, b) => (b.priority || 0) - (a.priority || 0))
toSorted(rules) ==
    [k \in 1..Len(rules) |->
        rules[CHOOSE i \in 1..Len(rules) :
                 Cardinality({j \in 1..Len(rules) :
                                 SortsBefore(rules, j, i)}) = k - 1]]

\* a variant of IsCommandRule that does not look at enabled
IsCommandRule_IgnoresEnabled(rule) == rule.subject = "command"

\* r.subject === "command" && r.enabled !== false
IsCommandRule(rule) ==
    rule.subject = "command" /\ rule.enabled # <<FALSE>>

\* (policy.rules || []).filter(...).toSorted(...)
commandRules(policy) == toSorted(SelectSeq(policy.rules, IsCommandRule))

\* rule.conditions.every((c) => evaluateCondition(c, details))
allMatch(rule, details) ==
    \A i \in 1..Len(rule.conditions) :
        evaluateCondition(rule.conditions[i], details)

\* the details object of evaluateCommand; opts.host, opts.cwd and
\* opts.agentId are << >> when the caller does not give them
Details(command, opts) ==
    [command |-> <<command>>,
     baseCommand |-> <<extractBaseCommand(command)>>,
     name |-> <<extractBaseCommand(command)>>,
     host |-> opts.host, cwd |-> opts.cwd, agentId |-> opts.agentId]

\* the rule that decides: the first of the sorted rules whose conditions
\* all match, << >> when there is none
firstMatch(rules, details) ==
    LET matching == {i \in 1..Len(rules) : allMatch(rules[i], details)}
    IN  IF matching = {} THEN << >>
        ELSE <<rules[CHOOSE i \in matching : \A j \in matching : i <= j]>>

\* a variant of DefaultResult that names a rule
DefaultResult_NamesRule(policy) ==
    [decision |-> normalizeAction(
                      IF policy.defaultAction \in {<< >>, <<<< >>>>}
                      THEN Str_ask ELSE policy.defaultAction[1]),
     reason |-> <<"No matching rule, using default policy">>,
     matchedRule |-> <<"default">>]

\* the result when no rule matches: normalizeAction(policy.defaultAction ||
\* "ask"), and no matchedRule
DefaultResult(policy) ==
    [decision |-> normalizeAction(
                      IF policy.defaultAction \in {<< >>, <<<< >>>>}
                      THEN Str_ask ELSE policy.defaultAction[1]),
     reason |-> <<"No matching rule, using default policy">>,
     matchedRule |-> << >>]

\* a TypeError in place of a result: policy.rules has no filter method,
\* rule.conditions is undefined, or the action has no toLowerCase method
TypeError ==
    [decision |-> "TypeError", reason |-> << >>, matchedRule |-> << >>]

\* the result of evaluateCommand for a loaded policy: that of the first
\* rule, in sorted order, whose conditions all match, else the default.
\* The loop stops with a TypeError at a rule without a list of conditions
\* (a rule whose list is empty matches)
EvaluateRules(policy, command, opts) ==
    IF ~policy.rulesIsList THEN TypeError
    ELSE
    With(firstMatch(commandRules(policy), Details(command, opts)),
         LAMBDA match :
        IF match # << >>
        THEN IF ~match[1].hasConditions \/ ~match[1].actionIsString
             THEN TypeError
             ELSE [decision |-> normalizeAction(match[1].action),
                   reason |-> IF match[1].description # << >>
                              THEN match[1].description
                              ELSE <<"Matched rule: ", match[1].id>>,
                   matchedRule |-> <<match[1].id>>]
        ELSE IF ~policy.defaultIsString THEN TypeError
        ELSE DefaultResult(policy))

\* const POLICY_CACHE_TTL_MS = 30_000
POLICY_CACHE_TTL_MS == 30000

\* the module state after resetPolicyGateCache(), and at load time
FreshGate ==
    [cachedPolicy |-> << >>, cachedPolicyMtime |-> 0, lastPolicyCheck |-> 0,
     auditDirChecked |-> FALSE]

\* loadPolicy() at time t: the module state afterwards and the policy
\* returned, << >> for null.  file is << >> when security-policy.json does
\* not exist, else <<[valid, content, mtimeMs, readable]>>: whether the text
\* is JSON, and the policy it denotes when it is.  Every failure is caught
\* inside loadPolicy, so that the catch block around the call in
\* evaluateCommand is never entered.  fsCalls are the calls made on the
\* policy file
loadPolicy(g, file, t) ==
    IF g.cachedPolicy # << >> /\ t - g.lastPolicyCheck < POLICY_CACHE_TTL_MS
    THEN [g |-> g, policy |-> g.cachedPolicy, fsCalls |-> << >>]
    ELSE LET g1 == [g EXCEPT !.lastPolicyCheck = t] IN
         IF file = << >>
         THEN [g |-> g1, policy |-> << >>, fsCalls |-> <<"existsSync">>]
         ELSE IF g1.cachedPolicy # << >>
                 /\ file[1].mtimeMs = g1.cachedPolicyMtime
         THEN [g |-> g1, policy |-> g1.cachedPolicy,
               fsCalls |-> <<"existsSync", "statSync">>]
         ELSE IF ~file[1].readable \/ ~file[1].valid
         THEN [g |-> g1, policy |-> << >>,
               fsCalls |-> <<"existsSync", "statSync", "readFileSync">>]
         ELSE [g |-> [g1 EXCEPT !.cachedPolicy = <<file[1].content>>,
                                !.cachedPolicyMtime = file[1].mtimeMs],
               policy |-> <<file[1].content>>,
               fsCalls |-> <<"existsSync", "statSync", "readFileSync">>]

\* a variant of isPolicyGateEnabled that looks at the policy file only
isPolicyGateEnabled_FileOnly(envVal, file) == file # << >>

\* isPolicyGateEnabled(): envVal is << >> when GANESH_POLICY_GATE is not set
isPolicyGateEnabled(envVal, file) ==
    IF envVal = << >> THEN file # << >>
    ELSE IF ToLowerCase(envVal[1]) \in {<<"0">>, <<"f", "a", "l", "s", "e">>,
                                        <<"o", "f", "f">>}
    THEN FALSE
    ELSE IF ToLowerCase(envVal[1]) \in {<<"1">>, <<"t", "r", "u", "e">>,
                                        <<"o", "n">>}
    THEN TRUE
    ELSE file # << >>

\* a day in milliseconds: new Date().toISOString().slice(0, 10)
DAY_MS == 86400000

\* the date in the name of the audit file written at time t
AuditDate(t) == t \div DAY_MS

\* a variant of writeAudit that writes the file anew instead of appending
writeAudit_Overwrites(g, dir, entry, t, mkdirFails, appendFails) ==
    IF ~g.auditDirChecked /\ dir = << >> /\ mkdirFails
    THEN [g |-> g, dir |-> dir, attempted |-> TRUE, written |-> FALSE]
    ELSE LET g1 == [g EXCEPT !.auditDirChecked = TRUE]
             d1 == IF ~g.auditDirChecked /\ dir = << >> THEN <<EmptyMap>>
                   ELSE dir
         IN  IF d1 = << >> \/ appendFails
             THEN [g |-> g1, dir |-> d1, attempted |-> TRUE,
                   written |-> FALSE]
             ELSE [g |-> g1,
                   dir |-> <<Put(d1[1], AuditDate(t), <<entry>>)>>,
                   attempted |-> TRUE, written |-> TRUE]

\* writeAudit(entry) at time t: the module state and the audit directory
\* afterwards.  dir is << >> when ~/.ganesh/audit does not exist, else
\* <<files>> with files: date -> the lines of policy-gate-<date>.jsonl;
\* mkdirFails and appendFails are what the file system does to this call
writeAudit(g, dir, entry, t, mkdirFails, appendFails) ==
    IF ~g.auditDirChecked /\ dir = << >> /\ mkdirFails
    THEN [g |-> g, dir |-> dir, attempted |-> TRUE, written |-> FALSE]
    ELSE LET g1 == [g EXCEPT !.auditDirChecked = TRUE]
             d1 == IF ~g.auditDirChecked /\ dir = << >> THEN <<EmptyMap>>
                   ELSE dir
         IN  IF d1 = << >> \/ appendFails
             THEN [g |-> g1, dir |-> d1, attempted |-> TRUE,
                   written |-> FALSE]
             ELSE [g |-> g1,
                   dir |-> <<Put(d1[1], AuditDate(t),
                                 Append(IF Has(d1[1], AuditDate(t))
                                        THEN d1[1][AuditDate(t)] ELSE << >>,
                                        entry))>>,
                   attempted |-> TRUE, written |-> TRUE]

\* the audit entry of a result
AuditEntry(command, opts, result, t) ==
    [timestamp |-> t, event |-> "policy_gate_check", command |-> command,
     decision |-> result.decision, reason |-> result.reason,
     matchedRule |-> result.matchedRule, agentId |-> opts.agentId,
     host |-> opts.host]

\* a variant of AuditFailure in which the failure of the audit write reaches
\* the caller of evaluateCommand
AuditFailure_Propagates(result, audit) ==
    IF audit.written THEN <<result>>
    ELSE <<[decision |-> "thrown", reason |-> << >>, matchedRule |-> << >>]>>

\* catch (err) { logWarn(...) } in writeAudit, catch in ensureAuditDir: the
\* result is returned whether or not the entry was written
AuditFailure(result, audit) == <<result>>

\* evaluateCommand(command, opts) at time t: the module state, the audit
\* directory, the calls loadPolicy made on the policy file, and what is
\* returned, or that the call throws: nothing in evaluateCommand catches
\* an error raised after the policy is loaded
evaluateCommand(g, file, dir, envVal, command, opts, t, mkdirFails, appendFails) ==
    IF ~isPolicyGateEnabled(envVal, file)
    THEN [g |-> g, dir |-> dir, attempted |-> FALSE, written |-> FALSE,
          fsCalls |-> << >>, thrown |-> FALSE,
          returned |-> <<[decision |-> "allow",
                          reason |-> <<"Policy gate disabled">>,
                          matchedRule |-> << >>]>>]
    ELSE With(loadPolicy(g, file, t), LAMBDA loaded :
         IF loaded.policy = << >>
         THEN [g |-> loaded.g, dir |-> dir, attempted |-> FALSE,
               written |-> FALSE, fsCalls |-> loaded.fsCalls,
               thrown |-> FALSE,
               returned |-> <<[decision |-> "allow",
                               reason |-> <<"No policy config found">>,
                               matchedRule |-> << >>]>>]
         ELSE With(EvaluateRules(loaded.policy[1], command, opts),
                   LAMBDA result :
              IF result = TypeError
              THEN [g |-> loaded.g, dir |-> dir, attempted |-> FALSE,
                    written |-> FALSE, fsCalls |-> loaded.fsCalls,
                    thrown |-> TRUE, returned |-> << >>]
              ELSE
              With(writeAudit(loaded.g, dir,
                              AuditEntry(command, opts, result, t),
                              t, mkdirFails, appendFails),
                   LAMBDA audit :
                  [g |-> audit.g, dir |-> audit.dir,
                   attempted |-> audit.attempted, written |-> audit.written,
                   fsCalls |-> loaded.fsCalls, thrown |-> FALSE,
                   returned |-> AuditFailure(result, audit)])))

-----------------------------------------------------------------------------
(* ganesh-policy-gate.ts: evaluations, the policy file and the clock       *)

Cmd_rm == <<"r", "m", " ", "x">>
Cmd_sudo_rm == <<"s", "u", "d", "o", " ", "r", "m", " ", "y">>
Cmd_ls == <<"l", "s">>
GateCommands == {Cmd_rm, Cmd_sudo_rm, Cmd_ls}

\* the caller gives no host, cwd or agentId
NoOpts == [host |-> << >>, cwd |-> << >>, agentId |-> << >>]

\* two rules that match 'rm x' with priorities 1 and 10; the action of the
\* second is written in upper case
Rule_deny_rm ==
    Rule("deny-rm", "command",
         <<Condition("baseCommand", "eq", <<"r", "m">>)>>,
         Str_deny, <<1>>, <<TRUE>>)
Rule_allow_rm_x ==
    Rule("allow-rm-x", "command",
         <<Condition("command", "contains", <<"r", "m", " ", "x">>)>>,
         <<"A", "L", "L", "O", "W">>, <<10>>, << >>)

\* two rules that match 'ls' with the same priority, 0 and none
Rule_ask_ls ==
    Rule("ask-ls", "command",
         <<Condition("baseCommand", "eq", <<"l", "s">>)>>,
         Str_ask, << >>, << >>)
Rule_allow_ls ==
    Rule("allow-ls", "command",
         <<Condition("command", "matches", <<"l">>)>>,
         Str_allow, <<0>>, <<TRUE>>)

\* rules of higher priority that must not decide: a disabled one, one of
\* another subject, and one with a condition that fails (no host is given)
Rule_disabled ==
    Rule("disabled-deny", "command", << >>, Str_deny, <<100>>, <<FALSE>>)
Rule_file == Rule("file-deny", "file", << >>, Str_deny, <<50>>, << >>)
Rule_partial ==
    Rule("partial-deny", "command",
         <<Condition("baseCommand", "eq", <<"l", "s">>),
           Condition("host", "eq", <<"h">>)>>,
         Str_deny, <<20>>, << >>)

\* a policy; rulesIsList is whether the JSON text gives a list for rules,
\* defaultIsString whether it gives a string (or nothing) for defaultAction
Policy(defaultAction, rules) ==
    [defaultAction |-> defaultAction, rules |-> rules, rulesIsList |-> TRUE,
     defaultIsString |-> TRUE]

\* s reversed
Reverse(s) == [i \in 1..Len(s) |-> s[Len(s) + 1 - i]]

\* the policies of the model, each with its rules declared in both orders;
\* the default actions are 'deny', 'mfa', 'Allow' and none
Policies ==
    LET rm == <<Rule_deny_rm, Rule_allow_rm_x>>
        ls == <<Rule_disabled, Rule_file, Rule_partial, Rule_ask_ls,
                Rule_allow_ls>>
    IN  {Policy(<<Str_deny>>, rm), Policy(<<Str_deny>>, Reverse(rm)),
         Policy(<<<<"m", "f", "a">>>>, ls),
         Policy(<<<<"m", "f", "a">>>>, Reverse(ls)),
         Policy(<<<<"A", "l", "l", "o", "w">>>>, << >>),
         Policy(<< >>, <<Rule_disabled>>)}

\* valid JSON of the wrong shape: rules that are an object, a rule without
\* conditions, a rule whose action is a number, a default action that is a
\* number
MalformedPolicies ==
    {[Policy(<<Str_deny>>, << >>) EXCEPT !.rulesIsList = FALSE],
     Policy(<<Str_deny>>,
            <<[Rule("no-conditions", "command", << >>, Str_deny, << >>,
                    << >>) EXCEPT !.hasConditions = FALSE]>>),
     Policy(<<Str_deny>>,
            <<[Rule("action-1", "command", << >>, <<"1">>, << >>, << >>)
                  EXCEPT !.actionIsString = FALSE]>>),
     [Policy(<<<<"1">>>>, << >>) EXCEPT !.defaultIsString = FALSE]}

\* security-policy.json with a JSON text, written at time t
PolicyFile(content, t) ==
    <<[valid |-> TRUE, content |-> content, mtimeMs |-> t,
       readable |-> TRUE]>>

\* security-policy.json with a text that is not JSON
InvalidFile(t) ==
    <<[valid |-> FALSE, content |-> << >>, mtimeMs |-> t, readable |-> TRUE]>>

\* what security-policy.json can be at time t: absent, a policy, JSON of
\* the wrong shape, not JSON, or not readable
PolicyFiles(t) ==
    {<< >>, InvalidFile(t),
     <<[valid |-> TRUE, content |-> Policy(<<Str_deny>>, << >>),
        mtimeMs |-> t, readable |-> FALSE]>>}
        \cup {PolicyFile(c, t) : c \in Policies \cup MalformedPolicies}

\* what an edit at time t leaves: no file, a file that is not JSON, or one of
\* two policies
PolicyEdits(t) ==
    {<< >>, InvalidFile(t),
     PolicyFile(Policy(<<Str_deny>>, <<Rule_deny_rm, Rule_allow_rm_x>>), t),
     PolicyFile(Policy(<<<<"A", "l", "l", "o", "w">>>>, << >>), t)}

\* GANESH_POLICY_GATE: not set, on, off, and a value that is none of the
\* recognised ones
EnvValues ==
    {<< >>, <<<<"o", "n">>>>, <<<<"O", "F", "F">>>>, <<<<"y", "e", "s">>>>}

\* the clock at the start, half a minute before midnight (UTC)
GateStart == DAY_MS - 30000

\* by how much the clock advances between calls
GateSteps == {15000, 30000}

MaxGateTicks == 2
MaxPolicyWrites == 1
MaxEvaluations == 2

IdleExtraction ==
    [kind |-> "none", command |-> << >>, prefixed |-> << >>, base |-> << >>,
     prefixedBase |-> << >>]

IdleGout ==
    [command |-> << >>, at |-> 0, returned |-> << >>, attempted |-> FALSE,
     written |-> FALSE, fsCalls |-> << >>, thrown |-> FALSE]

\* whether a step of the audit write fails, when the step is taken at all
AuditFailures(taken) == IF taken THEN BOOLEAN ELSE {FALSE}

\* one call evaluateCommand(command), the whole of it: the function is
\* synchronous
EvaluateCall(command, mkdirFails, appendFails) ==
    /\ \E r \in {evaluateCommand(gate, gfs.policyFile, gfs.auditDir,
                                  genv.envVal, command, NoOpts, genv.now,
                                  mkdirFails, appendFails)} :
          /\ gate' = r.g
          /\ gfs' = [gfs EXCEPT !.auditDir = r.dir]
          /\ gout' = [command |-> <<command>>, at |-> genv.now,
                      returned |-> r.returned, attempted |-> r.attempted,
                      written |-> r.written, fsCalls |-> r.fsCalls,
                      thrown |-> r.thrown]
    /\ genv' = [genv EXCEPT !.evals = @ + 1]
    /\ UNCHANGED extraction
    /\ UNCHANGED nonGateVars

\* a call of evaluateCommand, the audit log failing or not
Evaluate(command) ==
    /\ genv.evals < MaxEvaluations
    /\ \E mkdirFails \in AuditFailures(~gate.auditDirChecked),
          appendFails \in BOOLEAN :
         EvaluateCall(command, mkdirFails, appendFails)

MaxCacheEvaluations == 3

\* a call of evaluateCommand with a working audit log, in a longer sequence
\* of calls
EvaluateAudited(command) ==
    /\ genv.evals < MaxCacheEvaluations
    /\ EvaluateCall(command, FALSE, FALSE)

\* time passes
GateTick ==
    /\ genv.ticks < MaxGateTicks
    /\ \E d \in GateSteps :
         genv' = [genv EXCEPT !.now = @ + d, !.ticks = @ + 1]
    /\ UNCHANGED <<gate, gfs, gout, extraction>>
    /\ UNCHANGED nonGateVars

\* somebody writes, removes or protects security-policy.json
PolicyFileChanges ==
    /\ genv.writes < MaxPolicyWrites
    /\ \E f \in PolicyEdits(genv.now) :
         /\ f # gfs.policyFile
         /\ gfs' = [gfs EXCEPT !.policyFile = f]
    /\ genv' = [genv EXCEPT !.writes = @ + 1]
    /\ UNCHANGED <<gate, gout, extraction>>
    /\ UNCHANGED nonGateVars

GateInit ==
    /\ gate = FreshGate
    /\ gfs \in {[policyFile |-> f, auditDir |-> d] :
                   f \in PolicyFiles(GateStart - 1), d \in {<< >>}}
    /\ genv \in {[now |-> GateStart, envVal |-> e, ticks |-> 0, writes |-> 0,
                  evals |-> 0] : e \in EnvValues}
    /\ gout = IdleGout
    /\ extraction = IdleExtraction

GateIdle ==
    /\ gate = FreshGate
    /\ gfs = [policyFile |-> << >>, auditDir |-> << >>]
    /\ genv = [now |-> 0, envVal |-> << >>, ticks |-> 0, writes |-> 0,
               evals |-> 0]
    /\ gout = IdleGout
    /\ extraction = IdleExtraction

GateNext ==
    \/ \E command \in GateCommands : Evaluate(command)
    \/ GateTick
    \/ PolicyFileChanges

\* the gate is enabled by GANESH_POLICY_GATE=on and starts with a policy
\* in security-policy.json
GateCacheInit ==
    /\ gate = FreshGate
    /\ gfs = [policyFile |->
                  PolicyFile(Policy(<<Str_deny>>,
                                    <<Rule_deny_rm, Rule_allow_rm_x>>),
                             GateStart - 1),
              auditDir |-> << >>]
    /\ genv = [now |-> GateStart, envVal |-> <<<<"o", "n">>>>, ticks |-> 0,
               writes |-> 0, evals |-> 0]
    /\ gout = IdleGout
    /\ extraction = IdleExtraction

GateCacheNext ==
    \/ \E command \in {Cmd_sudo_rm, Cmd_ls} : EvaluateAudited(command)
    \/ GateTick
    \/ PolicyFileChanges

\* the executables and argument lists of the commands given to
\* extractBaseCommand
Executables ==
    {<<"l", "s">>, <<"r", "m">>, <<"c", "a", "t">>,
     <<"s", "y", "s", "t", "e", "m", "c", "t", "l">>}
Arguments ==
    {<< >>, <<" ", "x">>,
     <<" ", "s", "t", "o", "p", " ", "s", "e", "r", "v", "i", "c", "e">>}
BaseCommands == {Cat(e, a) : e \in Executables, a \in Arguments}

\* what is put before a command: sudo without and with flags (-n, -E, and
\* -u with the user it names), assignments to environment variables (one,
\* two, one of the empty value), and directories
Prefixes ==
    {[kind |-> "sudo", text |-> <<"s", "u", "d", "o", " ">>],
     [kind |-> "sudo", text |-> <<"s", "u", "d", "o", " ", "-", "n", " ">>],
     [kind |-> "sudo",
      text |-> <<"s", "u", "d", "o", " ", " ", "-", "n", " ", "-", "E", " ">>],
     [kind |-> "sudo",
      text |-> <<"s", "u", "d", "o", " ", "-", "u", " ", "r", "o", "o", "t",
                 " ">>],
     [kind |-> "assignment", text |-> <<"A", "=", "1", " ">>],
     [kind |-> "assignment",
      text |-> <<"A", "=", "1", " ", "B", "=", "2", " ">>],
     [kind |-> "assignment", text |-> <<"A", "=", " ">>],
     [kind |-> "directory", text |-> <<"/">>],
     [kind |-> "directory", text |-> <<"/", "b", "i", "n", "/">>],
     [kind |-> "directory", text |-> <<".", "/">>]}

\* extractBaseCommand(command) and extractBaseCommand(prefix + command)
ExtractBase(command, prefix) ==
    /\ extraction' =
          [kind |-> prefix.kind, command |-> command,
           prefixed |-> Cat(prefix.text, command),
           base |-> extractBaseCommand(command),
           prefixedBase |-> extractBaseCommand(Cat(prefix.text, command))]
    /\ UNCHANGED <<gate, gfs, genv, gout>>
    /\ UNCHANGED nonGateVars

BaseNext ==
    \E command \in BaseCommands, prefix \in Prefixes :
        ExtractBase(command, prefix)

\* one call parseSecretRef(ref, defaultBackend)
ParseCall ==
    /\ pOut = << >>
    /\ pOut' = <<parseSecretRef(pIn.ref, pIn.dflt)>>
    /\ UNCHANGED pIn
    /\ UNCHANGED nonParseVars

ParseNext == ParseCall

\* the initial states of the specifications
InitParse == ParseInit /\ ResolverIdle /\ VaultAtRest /\ PollIdle /\ IdsIdle /\ TotpIdle
        /\ GateIdle

InitResolver ==
    ResolverInit /\ ParseIdle /\ VaultAtRest /\ PollIdle /\ IdsIdle /\ TotpIdle
        /\ GateIdle

InitVault == VaultInit /\ ParseIdle /\ ResolverIdle /\ PollIdle /\ IdsIdle /\ TotpIdle
        /\ GateIdle

InitPoll ==
    PollInit /\ ParseIdle /\ ResolverIdle /\ VaultDuringExchange /\ IdsIdle /\ TotpIdle
        /\ GateIdle

InitIds ==
    IdsIdle /\ ParseIdle /\ ResolverIdle /\ VaultDuringExchange /\ PollIdle /\ TotpIdle
        /\ GateIdle

SpecParse == InitParse /\ [][ParseNext]_vars

SpecResolver == InitResolver /\ [][ResolverNext]_vars

SpecRefs == InitResolver /\ [][RefsNext]_vars

SpecVault == InitVault /\ [][VaultNext]_vars

InitStores ==
    VaultUnlocked /\ ParseIdle /\ ResolverIdle /\ PollIdle /\ IdsIdle /\ TotpIdle
        /\ GateIdle

SpecStores == InitStores /\ [][StoresNext]_vars

InitTotp ==
    TotpInit /\ ParseIdle /\ ResolverIdle /\ VaultAtRest /\ PollIdle /\ IdsIdle
        /\ GateIdle

InitGate ==
    GateInit /\ ParseIdle /\ ResolverIdle /\ VaultAtRest /\ PollIdle
        /\ IdsIdle /\ TotpIdle

SpecIds == InitIds /\ [][IdsNext]_vars

SpecGate == InitGate /\ [][GateNext]_vars

InitGateCache ==
    GateCacheInit /\ ParseIdle /\ ResolverIdle /\ VaultAtRest /\ PollIdle
        /\ IdsIdle /\ TotpIdle

SpecGateCache == InitGateCache /\ [][GateCacheNext]_vars

InitBase ==
    GateIdle /\ ParseIdle /\ ResolverIdle /\ VaultAtRest /\ PollIdle
        /\ IdsIdle /\ TotpIdle

SpecBase == InitBase /\ [][BaseNext]_vars

SpecTotp == InitTotp /\ [][TotpNext]_vars

\* the approval poll: every await of pollTelegramApproval resolves or
\* rejects (each transport call returns or fails, each timer fires), so a
\* step of the poll that is enabled is eventually taken
SpecPoll == InitPoll /\ [][PollNext]_vars /\ WF_vars(PollStep)

\* an input whose parts are unambiguous: a non-empty path, and a field (when
\* there is one) of one or more word characters
WellFormedParts(in) ==
    /\ in.path # << >>
    /\ in.field # NoField =>
          /\ in.field # << >>
          /\ \A j \in 1..Len(in.field) : IsWordChar(in.field[j])

\* the SecretRef the parts stand for
ExpectedRef(in) ==
    LET backend == IF in.b = NoPrefix THEN in.dflt ELSE in.b IN
    IF in.field = NoField
    THEN [backend |-> backend, path |-> in.path]
    ELSE [backend |-> backend, path |-> in.path, field |-> in.field]

\* C5 (as claimed): for every reference string backend:path#field with
\* backend in {pass, vault, keyring, env, file, ganesh}, parseSecretRef
\* returns exactly {backend, path, field}; without '#field' the result has no
\* field; without a backend prefix the backend is the supplied default.
C5_ParseRecoversParts ==
    (pOut # << >> /\ WellFormedParts(pIn)) => pOut[1] = ExpectedRef(pIn)

\* the same statement for the prefixes other than ganesh
C5_ParseRecoversPartsExceptGanesh ==
    (pOut # << >> /\ WellFormedParts(pIn) /\ pIn.b # "ganesh")
        => pOut[1] = ExpectedRef(pIn)

-----------------------------------------------------------------------------
(* Properties of resolveSecret (checked under SpecResolver)                *)

\* the resolveSecret calls that have returned
DoneCalls == {p \in Callers : call[p].pc = "done"}

Result(p) == call[p].result[1]

\* the call was answered from the cache
IsHit(p) == "cached" \in DOMAIN Result(p) /\ Result(p).cached = TRUE

\* an entry exists and its age at time t is below five minutes
YoungerThanTTL(entry, t) ==
    entry # << >> /\ t - entry[1].resolvedAt < 5 * 60 * 1000

\* the answer from the cache, and the backend not called
HitIsCachedValue(p) ==
    /\ Result(p) = [ok |-> TRUE, value |-> call[p].entryAtStart[1].value,
                    cached |-> TRUE]
    /\ ~call[p].calledAvail
    /\ ~call[p].calledResolve
    /\ call[p].wrote = << >>

\* the errors createBackend throws
CreateBackendErrors ==
    {"Vault backend not yet implemented", "Keyring backend not yet implemented",
     "Env backend not yet implemented", "File backend does not support resolution",
     "Unknown secrets backend"}

\* C3 (as claimed): a call is answered from the cache, without a backend call,
\* exactly when an entry younger than 5 minutes exists; in every other case
\* the backend is called again and the entry is replaced with the new value
\* and time.
C3_MissAlwaysReplacesEntry ==
    \A p \in DoneCalls :
        /\ IsHit(p) <=> YoungerThanTTL(call[p].entryAtStart, call[p].startAt)
        /\ IsHit(p) => HitIsCachedValue(p)
        /\ ~IsHit(p) =>
              /\ call[p].calledAvail
              /\ call[p].gotValue # << >>
              /\ call[p].wrote = <<[value |-> call[p].gotValue[1],
                                    resolvedAt |-> call[p].doneAt]>>

\* C3 (amended): a call is answered from the cache, without a backend call,
\* exactly when an entry younger than 5 minutes exists; in every other case
\* the cached value is not used: unless creating the backend fails the
\* backend is called again, and the entry is replaced with the new value and
\* time if and only if the backend returns a value.
C3_HitExactlyWhenFresh ==
    \A p \in DoneCalls :
        /\ IsHit(p) <=> YoungerThanTTL(call[p].entryAtStart, call[p].startAt)
        /\ IsHit(p) => HitIsCachedValue(p)
        /\ ~IsHit(p) =>
              /\ \/ call[p].calledAvail
                 \/ /\ Result(p).ok = FALSE
                    /\ Result(p).error \in CreateBackendErrors
              /\ call[p].gotValue # << >> =>
                    /\ call[p].wrote = <<[value |-> call[p].gotValue[1],
                                          resolvedAt |-> call[p].doneAt]>>
                    /\ Result(p) = [ok |-> TRUE, value |-> call[p].gotValue[1]]
              /\ call[p].gotValue = << >> => call[p].wrote = << >>

\* C3 witness: an entry exactly 5 minutes old is not used, the backend is
\* called and the entry is replaced by a different value
C3_Witness ==
    \E p \in DoneCalls :
        /\ call[p].entryAtStart # << >>
        /\ call[p].startAt - call[p].entryAtStart[1].resolvedAt = CACHE_TTL_MS
        /\ call[p].wrote # << >>
        /\ call[p].wrote[1].value # call[p].entryAtStart[1].value

\* C4: a failed resolution writes nothing to the cache.  When the backend is
\* not available the call returns ok:false without calling backend.resolve;
\* when backend.resolve returns null it returns ok:false, 'secret not found';
\* in both cases the call wrote no cache entry, and as long as nothing else
\* writes the entry the next call for the reference finds no fresh entry and
\* a registered backend, so it calls the backend again.
C4_FailureWritesNoCache ==
    \A p \in DoneCalls :
        /\ call[p].available = <<FALSE>> =>
              /\ Result(p).ok = FALSE
              /\ "value" \notin DOMAIN Result(p)
              /\ ~call[p].calledResolve
              /\ call[p].wrote = << >>
        /\ (call[p].calledResolve /\ call[p].gotValue = << >>) =>
              /\ Result(p) = [ok |-> FALSE, error |-> "Secret not found"]
              /\ call[p].wrote = << >>
        /\ (call[p].calledAvail /\ Result(p).ok = FALSE) =>
              /\ Has(backendInstances, call[p].parsed[1].backend)
              /\ CacheGet(call[p].ref) = call[p].entryAtStart =>
                    ~YoungerThanTTL(CacheGet(call[p].ref), now)

\* C4 witness: backend.resolve returned null to a call that found a stale
\* entry, and the entry is still the stale one
C4_Witness ==
    \E p \in DoneCalls :
        /\ call[p].calledResolve
        /\ call[p].gotValue = << >>
        /\ call[p].entryAtStart # << >>
        /\ CacheGet(call[p].ref) = call[p].entryAtStart

\* C6: resolveSecret never throws or rejects: every call returns a structured
\* result, and ok=false implies that value is absent and error is populated.
C6_NeverThrows ==
    \A p \in DoneCalls :
        /\ DOMAIN Result(p) \subseteq {"ok", "value", "error", "cached"}
        /\ "ok" \in DOMAIN Result(p)
        /\ Result(p).ok \in BOOLEAN
        /\ Result(p).ok = FALSE =>
              /\ "value" \notin DOMAIN Result(p)
              /\ "error" \in DOMAIN Result(p)
              /\ Result(p).error # ""
        /\ Result(p).ok = TRUE => "value" \in DOMAIN Result(p)

\* C6 witness: the backend constructor threw for the empty reference under a
\* configuration whose backend createBackend does not know
C6_Witness ==
    \E p \in DoneCalls :
        /\ call[p].ref = Ref_empty
        /\ Result(p) = [ok |-> FALSE, error |-> "Unknown secrets backend"]

\* the backend type of a reference: its prefix, else the default
RefBackendType(ref, config) ==
    parseSecretRef(ref, IF config = Undefined THEN "pass" ELSE config).backend

\* C7 (as claimed): a reference whose backend type is unknown or not yet
\* implemented makes resolveSecret return ok:false with a descriptive error;
\* no backend instance is registered for that type and nothing is cached.
C7_UnimplementedTypeAlwaysFails ==
    \A p \in DoneCalls :
        RefBackendType(call[p].ref, call[p].config) # "pass" =>
            /\ Result(p).ok = FALSE
            /\ Result(p).error \in CreateBackendErrors
            /\ ~Has(backendInstances,
                    RefBackendType(call[p].ref, call[p].config))
            /\ ~Has(secretsCache, call[p].ref)

\* the reference 'ganesh:<path>'
GaneshRef(path) == TypeChars("ganesh") \o <<":">> \o path

\* the vault is available: its three files are there
VaultFilesPresent ==
    vdisk.manifest # << >> /\ vdisk.secretsFile /\ vdisk.identity

\* C8 (as claimed): a reference 'ganesh:<path>' is dispatched to the Ganesh
\* vault backend: when the vault is available and holds the path as a tier-1
\* secret, resolveSecret('ganesh:<path>') returns ok:true with the vault's
\* value.
C8_GaneshRefReachesVault ==
    \A p \in DoneCalls : \A path \in DOMAIN vdisk.secrets :
        (/\ call[p].ref = GaneshRef(path)
         /\ VaultFilesPresent
         /\ getSecretTier(vdisk.manifest, path) = 1)
            => /\ Result(p).ok = TRUE
               /\ Result(p).value = vdisk.secrets[path]

-----------------------------------------------------------------------------
(* Properties of resolveSecretRefs (checked under SpecRefs)                *)

\* the resolveSecretRefs calls that have returned
DoneRefs == {p \in Callers : refs[p].pc = "done"}

\* a field name without its last three characters
WithoutSuffix(k) == SubSeq(k, 1, Len(k) - 3)

\* the top-level string fields of the given object whose name ends in 'Ref'
RefKeys(p) ==
    {k \in DOMAIN refs[p].given :
        /\ Len(k) >= 3
        /\ SubSeq(k, Len(k) - 2, Len(k)) = <<"R", "e", "f">>
        /\ refs[p].given[k].t = "string"}

\* the resolution of field k succeeded / failed
FieldResolved(p, k) == Has(refs[p].outcomes, k) /\ refs[p].outcomes[k].ok

FieldFailed(p, k) == Has(refs[p].outcomes, k) /\ ~refs[p].outcomes[k].ok

\* the returned object holds the resolved value of k under k without suffix
ValueWritten(p, k) ==
    /\ FieldResolved(p, k)
    /\ Has(refs[p].result, WithoutSuffix(k))
    /\ refs[p].result[WithoutSuffix(k)] = JsString(refs[p].outcomes[k].value)

\* the returned object holds an error message under _secretErrors[k]
ErrorRecorded(p, k) ==
    /\ Has(refs[p].result, SecretErrorsKey)
    /\ Has(refs[p].result[SecretErrorsKey].m, k)

\* C9 (as claimed): resolveSecretRefs never aborts on a failing field: every
\* reference field is resolved; for each the resolved value is written to the
\* field without the suffix or an error is recorded under _secretErrors,
\* never neither and never both; _secretErrors is present exactly when at
\* least one field failed.
C9_ValueOrErrorNeverBoth ==
    \A p \in DoneRefs :
        /\ \A k \in RefKeys(p) :
              /\ Has(refs[p].outcomes, k)
              /\ ValueWritten(p, k) # ErrorRecorded(p, k)
        /\ Has(refs[p].result, SecretErrorsKey)
              <=> (\E k \in RefKeys(p) : FieldFailed(p, k))

\* the suffix-stripped targets of the references that were resolved
ResolvedTargets(p) == {WithoutSuffix(k) : k \in {x \in RefKeys(p) : FieldResolved(p, x)}}

\* C10 (as claimed): resolveSecretRefs leaves its input object unmodified; in
\* the returned object every reference field keeps its reference string and
\* every field that is not the suffix-stripped target of a resolved reference
\* keeps its input value.
C10_OnlyTargetsChange ==
    \A p \in DoneRefs :
        /\ refs[p].obj = refs[p].given
        /\ \A k \in RefKeys(p) :
              Has(refs[p].result, k) /\ refs[p].result[k] = refs[p].given[k]
        /\ \A k \in DOMAIN refs[p].given \ ResolvedTargets(p) :
              Has(refs[p].result, k) /\ refs[p].result[k] = refs[p].given[k]

\* C10 (amended): resolveSecretRefs leaves its input object unmodified; in the
\* returned object every field other than _secretErrors that is not the
\* suffix-stripped target of a resolved reference keeps its input value (so a
\* reference field that is not itself such a target keeps its reference
\* string), _secretErrors keeps its input value when no field failed, and the
\* returned object has no fields but those of the input, the targets and
\* _secretErrors.
C10_OnlyTargetsAndErrorsChange ==
    \A p \in DoneRefs :
        /\ refs[p].obj = refs[p].given
        /\ \A k \in DOMAIN refs[p].given \ ResolvedTargets(p) :
              (k # SecretErrorsKey \/ ~\E x \in RefKeys(p) : FieldFailed(p, x))
                  => Has(refs[p].result, k)
                     /\ refs[p].result[k] = refs[p].given[k]
        /\ DOMAIN refs[p].result \subseteq
              DOMAIN refs[p].given \cup ResolvedTargets(p) \cup {SecretErrorsKey}

\* C10 witness: a call returned in which one reference failed and another,
\* whose target is itself a reference field, was resolved: the plain field t
\* kept its value and the reference field tRef did not
C10_Witness ==
    \E p \in DoneRefs :
        /\ Has(refs[p].given, Key_t)
        /\ FieldFailed(p, Key_tRef)
        /\ FieldResolved(p, Key_tRefRef)
        /\ refs[p].result[Key_t] = refs[p].given[Key_t]
        /\ refs[p].result[Key_tRef] # refs[p].given[Key_tRef]

-----------------------------------------------------------------------------
(* Properties of the vault (checked under SpecVault)                       *)

\* the resolve calls on the vault that have returned a value
ValueReturned(p) ==
    /\ vcall[p].pc = "done"
    /\ vcall[p].op = "resolve"
    /\ vcall[p].result # <<Null>>

\* manifest.json places secretId in tier 3: every group that lists it is a
\* tier-3 group, or no group lists it and defaultTier is 3
PlacedInTier3(secretId) ==
    /\ vdisk.manifest # << >>
    /\ LET gs == GroupsOf(vdisk.manifest[1], secretId) IN
         IF gs = << >> THEN vdisk.manifest[1].defaultTier = 3
         ELSE \A i \in 1..Len(gs) : gs[i].tier = 3

\* C1 (as claimed): the vault releases a tier-3 secret only after approval: a
\* resolve(path) on a path that the manifest places in tier 3 returns a value
\* only if an MFA approval exchange started inside that call ended in
\* 'approved', after any interleaving of unlock, lock, store and resolve.
C1_Tier3OnlyAfterApproval ==
    \A p \in VaultCallers :
        (ValueReturned(p) /\ PlacedInTier3(vcall[p].path))
            => vcall[p].mfa = "approved"

\* C2 (as claimed): a tier-3 secret is never served from a cache: when a
\* caller resolves the same tier-3 path twice in a row, the second call
\* returns a value only if it has started an MFA approval exchange of its
\* own.
C2_SecondResolveStartsExchange ==
    \A p \in VaultCallers :
        (ValueReturned(p) /\ vcall[p].again /\ PlacedInTier3(vcall[p].path))
            => vcall[p].mfa # "none"

\* in this step the unlock attempt of caller p fails: its call returns from
\* the wait for age-keygen or for 'age -d', or it returns at once although
\* the vault was not unlocked
UnlockFailsStep(p) ==
    /\ vcall'[p] # vcall[p]
    /\ vcall'[p].pc = "done"
    /\ \/ vcall[p].pc \in {"keygen", "decrypt"}
       \/ vcall[p].pc \in {"idle", "done"} /\ ~vault.unlocked

\* the failure value of an operation
FailureValue(op) ==
    CASE op = "resolve" -> << >>
      [] op = "list" -> {}
      [] OTHER -> FALSE

Unlocking == {p \in VaultCallers : vcall[p].pc \in {"keygen", "decrypt"}}

\* C12 (as claimed): in every state in which the vault is locked (and no
\* unlock attempt is under way) it holds no decrypted material: the secret
\* map is empty and the identity key, the public key and the manifest are
\* unset; in particular after lock() and after a failed unlock attempt.
C12_LockedHoldsNothing ==
    (~vault.unlocked /\ Unlocking = {}) =>
        /\ vault.secretsCache = << >>
        /\ vault.secretKey = << >>
        /\ vault.publicKey = << >>
        /\ vault.manifest = << >>

\* C13 (as claimed): unlock is single-flight: when several unlock, resolve,
\* store or list calls arrive concurrently on a locked vault, at most one
\* unlock attempt is performed.
C13_SingleFlightUnlock == Cardinality(Unlocking) <= 1

\* the tier a manifest gives a path: that of the first group, in manifest
\* order, whose secrets list contains it, else defaultTier
ManifestTier(m, path) ==
    LET listing == {i \in 1..Len(m.groups) : path \in m.groups[i].secrets} IN
    IF listing = {} THEN m.defaultTier
    ELSE m.groups[CHOOSE i \in listing : \A j \in listing : i <= j].tier

\* in this step the resolve call of caller p determines the tier of its path
TierCheckStep(p) ==
    /\ vcall'[p] # vcall[p]
    /\ vcall'[p].tier # 0
    /\ vcall[p].tier = 0 \/ vcall[p].pc = "done"

C15_PathInAtMostOneGroup ==
    vdisk.manifest # << >> =>
        \A path \in {Path_t, Path_p, BotTokenPath} :
            Len(GroupsOf(vdisk.manifest[1], path)) <= 1

\* in this step the store call of caller p returns true
StoreSucceedsStep(p) ==
    /\ vcall[p].op = "store"
    /\ vcall[p].pc # "done"
    /\ vcall'[p].pc = "done"
    /\ vcall'[p].result = <<TRUE>>

\* C16 (as claimed): when store(path, value) returns true the blob on disk
\* contains every entry of the in-memory map including the new one, the
\* entries stored earlier are preserved, and a resolve of the path would
\* find the value in memory or, after lock() and unlock, in the blob.
C16_StoreKeepsEveryEntry ==
    [][\A p \in VaultCallers :
          StoreSucceedsStep(p) =>
              /\ Has(vdisk'.secrets, vcall[p].path)
              /\ vdisk'.secrets[vcall[p].path] = vcall[p].value
              /\ \A k \in DOMAIN vdisk.secrets : Has(vdisk'.secrets, k)
              /\ \A k \in DOMAIN vault'.secretsCache :
                    /\ Has(vdisk'.secrets, k)
                    /\ vdisk'.secrets[k] = vault'.secretsCache[k]]_vars

\* the time the poll has been running
Elapsed == clock - poll.startTime

\* C17: the approval poll always terminates, with exactly one of the results
\* approved, denied or timed out; rounds that fail with a network error or a
\* response that is not ok are retried, no request is sent once the overall
\* timeout has elapsed, and 'timed out' is returned only then.
C17_PollTerminates ==
    /\ (poll.pc # "idle") ~> (poll.pc = "done")
    /\ [](poll.pc = "done" =>
             /\ poll.result \in {<<Approved>>, <<Denied>>, <<TimedOut>>}
             /\ poll.result = <<TimedOut>> => Elapsed >= poll.timeoutMs)
    /\ [](poll.pc = "fetch" => Elapsed < poll.timeoutMs)
    /\ [](poll.pc \notin {"idle", "done"} => poll.result = << >>)

\* C17 witness: the poll ran with the default timeout, no round ever
\* delivered an update, and it returned 'timed out' after 60 s
C17_Witness ==
    /\ poll.pc = "done"
    /\ poll.result = <<TimedOut>>
    /\ poll.config.timeoutMs = << >>
    /\ poll.lastUpdateId = 0
    /\ feed.updates # << >>
    /\ Elapsed >= DEFAULT_TIMEOUT_MS

\* the request id a callback payload carries: the characters before its
\* first colon (none if it has no colon)
CorrelationId(data) ==
    IF Positions(data, Colon) = {} THEN << >>
    ELSE SubSeq(data, 1, (CHOOSE i \in Positions(data, Colon) :
                             \A j \in Positions(data, Colon) : i <= j) - 1)

\* C18: the poll returns approved or denied only for a response whose
\* callback payload carries the request id of the outstanding request and
\* whose message is in the configured chat, whatever else the feed delivers
\* and in whatever order.
C18_OnlyMatchingResponseAccepted ==
    /\ poll.accepted # << >> =>
          /\ poll.accepted[1].data # << >>
          /\ CorrelationId(poll.accepted[1].data[1]) = RequestId
          /\ poll.accepted[1].chat = <<ConfiguredChat>>
    /\ (poll.pc = "done" /\ poll.result # <<TimedOut>>) =>
          /\ poll.accepted # << >>
          /\ poll.result = <<Approved>> <=>
                poll.accepted[1].data[1] = CallbackData(RequestId, Str_approve)
          /\ poll.result = <<Denied>> <=>
                poll.accepted[1].data[1] = CallbackData(RequestId, Str_deny)

\* C18 witness: the poll returned approved although responses for another
\* request or from another chat were delivered before the matching one
C18_Witness ==
    /\ poll.pc = "done"
    /\ poll.result = <<Approved>>
    /\ poll.accepted[1].update_id = MaxUpdates

\* in this step a getUpdates response is processed without any update being
\* accepted
IgnoredBatchStep ==
    /\ poll.pc = "fetch"
    /\ poll'.pc = "sleep"

\* C19 (as claimed): processing updates none of which is a matching approve
\* or deny leaves the offset cursor used for the next round unchanged.
C19_IgnoredUpdatesKeepCursor ==
    [][IgnoredBatchStep => poll'.lastUpdateId = poll.lastUpdateId]_vars

\* in this step a getUpdates request is sent that is not the first of the
\* exchange
NextRequestStep ==
    /\ poll.pc # "idle"
    /\ poll'.pc = "fetch"
    /\ poll.pc # "fetch" \/ clock' # clock

\* C20 (as claimed): between any two successive getUpdates requests of one
\* exchange there is the 2-second backoff, also after a round whose response
\* was not ok and after a round that failed with a network error.
C20_BackoffBetweenRounds ==
    [][NextRequestStep => (poll.pc = "sleep" /\ clock' = clock + BACKOFF_MS)]_vars

\* C21: once a matching response is accepted the poll makes its two
\* best-effort calls (acknowledge the callback, edit the request message to
\* the status) before it returns, and returns approved for the approve
\* button and denied for the deny button whether or not those calls
\* succeeded; after a deny resolveTier3 returns null, after an approve the
\* secret, and the call has sent one approval request only.
C21_AcknowledgedThenReturned ==
    /\ poll.accepted # << >> => poll.pc \in {"answer", "edit", "done"}
    /\ (poll.pc = "done" /\ poll.accepted # << >>) =>
          /\ poll.calls = <<"answerCallbackQuery", "editMessageText">>
          /\ poll.result = IF ApproveAccepted(poll) THEN <<Approved>>
                           ELSE <<Denied>>
          /\ feed.edited \in {<< >>, IF ApproveAccepted(poll)
                                     THEN <<"APPROVED">> ELSE <<"DENIED">>}
    /\ poll.accepted = << >> => (~feed.answered /\ feed.edited = << >>)
    /\ poll.returned # << >> =>
          poll.returned = IF poll.result = <<Approved>>
                          THEN <<vault.secretsCache[Path_t]>> ELSE <<Null>>
    /\ feed.messages = 1

\* C21 witness: the approve button was accepted, the acknowledgement and the
\* edit both failed, and the secret was returned
C21_Witness ==
    /\ poll.returned = <<VG1>>
    /\ poll.result = <<Approved>>
    /\ ~feed.answered
    /\ feed.edited = << >>

\* C22 (as claimed): two approval requests that are outstanding at the same
\* time for one vault never carry the same request id, so the callback data
\* of one is never taken for the other.
C22_OutstandingIdsDistinct ==
    \A p, q \in Requesters :
        (p # q /\ mfaRequests[p] # << >> /\ mfaRequests[q] # << >>) =>
            /\ mfaRequests[p] # mfaRequests[q]
            /\ ~IsForRequest(CallbackData(mfaRequests[q][1], Str_approve),
                             mfaRequests[p][1])

\* how far the time of generation is from the time of verification
TotpApart ==
    IF totp.genTime >= totp.now THEN totp.genTime - totp.now
    ELSE totp.now - totp.genTime

\* the counters verifyTotp looks at
VerifyCounters ==
    {c \in (totp.now \div 30000 - 1)..(totp.now \div 30000 + 1) : TRUE}

\* the code of a counter, as far as the hash has been computed
CodeOf(c) ==
    PadStart(NumberToString(hmacTable[<<secretBytes(totp.secret), c>>]
                                % 1000000), 6)

\* C23 (as claimed): verification accepts a code generated for a time up to
\* 30 seconds in the past or future and rejects a code generated 90 or more
\* seconds away, for every shared secret and verification time.
C23_AcceptsNearRejectsFar ==
    totp.verified # << >> =>
        /\ TotpApart <= 30000 => totp.verified = <<TRUE>>
        /\ TotpApart >= 90000 => totp.verified = <<FALSE>>

\* C23 (amended): verification accepts a code generated for a time up to 30
\* seconds in the past or future; a code generated 90 or more seconds away
\* is accepted only if it coincides with the code of one of the three
\* counters around the verification time; the code is the six-digit form of
\* the hash of (decoded secret, 30-second counter).
C23_AcceptsNearRejectsFarUnlessSameCode ==
    /\ totp.token # << >> =>
          totp.token = <<CodeOf(totp.genTime \div 30000)>>
    /\ totp.verified # << >> =>
          /\ TotpApart <= 30000 => totp.verified = <<TRUE>>
          /\ totp.verified = <<TRUE>> <=>
                \E c \in VerifyCounters : CodeOf(c) = totp.token[1]
          /\ (TotpApart >= 90000 /\ totp.verified = <<TRUE>>) =>
                \E c \in VerifyCounters :
                    /\ c # totp.genTime \div 30000
                    /\ CodeOf(c) = totp.token[1]

\* C23 witness: a code generated for a time 30 seconds after the time of
\* verification, in the next time step, was accepted
C23_Witness ==
    /\ totp.verified = <<TRUE>>
    /\ totp.genTime = totp.now + 30000
    /\ totp.secret = <<"7", "-", "B">>

\* a step in which evaluateCommand is called
EvaluationCall == genv'.evals = genv.evals + 1

\* a step in which evaluateCommand is called and returns
EvaluationStep == EvaluationCall /\ ~gout'.thrown

\* the policy that a call in this state works with, << >> when it has none
PolicyInUse ==
    IF isPolicyGateEnabled(genv.envVal, gfs.policyFile)
    THEN loadPolicy(gate, gfs.policyFile, genv.now).policy
    ELSE << >>

\* the rules of the policy, by their place in the declaration, that may
\* decide the command: command rules, not disabled, every condition holds
Eligible(policy, command) ==
    With(Details(command, NoOpts), LAMBDA details :
        {i \in 1..Len(policy.rules) :
            /\ policy.rules[i].subject = "command"
            /\ policy.rules[i].enabled # <<FALSE>>
            /\ \A k \in 1..Len(policy.rules[i].conditions) :
                  evaluateCondition(policy.rules[i].conditions[k], details)})

\* the eligible rules that no eligible rule beats: none has a higher
\* priority, and none of the same priority is declared earlier
Winners(policy, command) ==
    With(Eligible(policy, command), LAMBDA eligible :
        {i \in eligible :
            \A j \in eligible :
                \/ PriorityOf(policy.rules[i]) > PriorityOf(policy.rules[j])
                \/ /\ PriorityOf(policy.rules[i])
                         = PriorityOf(policy.rules[j])
                   /\ i <= j})

\* C24: evaluateCommand returns the decision of the highest-priority rule
\* among the enabled command rules whose every condition matches, whatever
\* the order of declaration; among matching rules of equal priority (a
\* missing priority counts as 0) the one declared first wins.
C24_HighestPriorityFirstDeclared ==
    [][(EvaluationStep /\ PolicyInUse # << >>
            /\ Eligible(PolicyInUse[1], gout'.command[1]) # {}) =>
          \E i \in Winners(PolicyInUse[1], gout'.command[1]) :
              /\ gout'.returned[1].matchedRule = <<PolicyInUse[1].rules[i].id>>
              /\ gout'.returned[1].decision =
                    normalizeAction(PolicyInUse[1].rules[i].action)]_vars

\* C24 witness: the rule of priority 1 is declared before the rule of
\* priority 10, both match 'rm x', and the rule of priority 10 decided
C24_Witness ==
    /\ gout.command = <<Cmd_rm>>
    /\ gout.returned # << >>
    /\ gout.returned[1].matchedRule = <<"allow-rm-x">>
    /\ gate.cachedPolicy # << >>
    /\ gate.cachedPolicy[1].rules = <<Rule_deny_rm, Rule_allow_rm_x>>

\* C25: a rule never determines the decision unless its subject is
\* 'command', it is not disabled and all of its conditions hold for the
\* evaluation: a disabled rule is skipped even if its conditions match, and
\* a rule with one failing condition is skipped even if its priority is the
\* highest.
C25_OnlyEligibleRuleDecides ==
    [][(EvaluationStep /\ gout'.returned[1].matchedRule # << >>) =>
          /\ PolicyInUse # << >>
          /\ \E i \in 1..Len(PolicyInUse[1].rules) :
                LET rule == PolicyInUse[1].rules[i] IN
                /\ gout'.returned[1].matchedRule = <<rule.id>>
                /\ rule.subject = "command"
                /\ rule.enabled # <<FALSE>>
                /\ \A k \in 1..Len(rule.conditions) :
                      evaluateCondition(rule.conditions[k],
                                        Details(gout'.command[1], NoOpts))
          /\ gout'.returned[1].matchedRule
                \notin {<<Rule_disabled.id>>, <<Rule_file.id>>,
                        <<Rule_partial.id>>}]_vars

\* C25 witness: 'ls' was decided by a rule of priority 0 although the policy
\* holds a disabled rule of priority 100 without conditions, a rule of
\* another subject, and a rule of priority 20 one of whose two conditions
\* holds
C25_Witness ==
    /\ gout.command = <<Cmd_ls>>
    /\ gout.returned # << >>
    /\ gout.returned[1].matchedRule = <<"ask-ls">>
    /\ gate.cachedPolicy # << >>
    /\ Len(gate.cachedPolicy[1].rules) = 5
    /\ gate.cachedPolicy[1].rules[1] = Rule_disabled
    /\ evaluateCondition(Rule_partial.conditions[1],
                         Details(Cmd_ls, NoOpts))

\* the default action the policy declares, 'ask' when it declares none
DeclaredDefault(policy) ==
    IF policy.defaultAction \in {<< >>, <<<< >>>>} THEN Str_ask
    ELSE policy.defaultAction[1]

\* C26: when no eligible rule matches, evaluateCommand returns the policy's
\* declared default action (normalized; 'ask' when none is declared) with
\* no matchedRule; matchedRule is set exactly when a rule matched, and then
\* it is that rule's id.
C26_DefaultWhenNoRuleMatches ==
    [][EvaluationStep =>
          /\ (PolicyInUse # << >>
                 /\ Eligible(PolicyInUse[1], gout'.command[1]) = {}) =>
                /\ gout'.returned[1].matchedRule = << >>
                /\ gout'.returned[1].decision =
                      normalizeAction(DeclaredDefault(PolicyInUse[1]))
                /\ DeclaredDefault(PolicyInUse[1])
                      \in {Str_allow, Str_deny, Str_ask} =>
                      Chars(gout'.returned[1].decision) =
                          DeclaredDefault(PolicyInUse[1])
          /\ gout'.returned[1].matchedRule # << >> <=>
                /\ PolicyInUse # << >>
                /\ Eligible(PolicyInUse[1], gout'.command[1]) # {}
          /\ gout'.returned[1].matchedRule # << >> =>
                \E i \in Eligible(PolicyInUse[1], gout'.command[1]) :
                    gout'.returned[1].matchedRule =
                        <<PolicyInUse[1].rules[i].id>>]_vars

\* C26 witness: the policy declares the default 'deny' and two rules for
\* 'rm x'; 'ls' matched neither and was denied by default
C26_Witness ==
    /\ gout.command = <<Cmd_ls>>
    /\ gout.returned # << >>
    /\ gout.returned[1].decision = "deny"
    /\ gout.returned[1].matchedRule = << >>
    /\ gate.cachedPolicy # << >>
    /\ gate.cachedPolicy[1].defaultAction = <<Str_deny>>
    /\ Len(gate.cachedPolicy[1].rules) = 2

\* the action string that decides the command under the policy: that of
\* the winning rule, else the declared default
DecidingAction(policy, command) ==
    With(Winners(policy, command), LAMBDA winners :
        IF winners = {} THEN DeclaredDefault(policy)
        ELSE policy.rules[CHOOSE i \in winners : TRUE].action)

\* C27 (as claimed): the decision returned is always one of allow, deny,
\* ask, and any action string, of a rule or of the policy default, other
\* than 'allow' or 'deny' gives 'ask' and never 'allow'.
C27_OtherActionsAsk ==
    [][EvaluationStep =>
          /\ gout'.returned[1].decision \in {"allow", "deny", "ask"}
          /\ (PolicyInUse # << >>
                 /\ DecidingAction(PolicyInUse[1], gout'.command[1])
                       \notin {Str_allow, Str_deny}) =>
                gout'.returned[1].decision = "ask"]_vars

\* C27 (amended): the decision returned is always one of allow, deny, ask;
\* an action string that is 'allow' or 'deny' when put in lower case gives
\* that decision, and every other action string gives 'ask'.
C27_OtherActionsAskUpToCase ==
    [][EvaluationStep =>
          /\ gout'.returned[1].decision \in {"allow", "deny", "ask"}
          /\ PolicyInUse # << >> =>
                \A action \in {DecidingAction(PolicyInUse[1],
                                               gout'.command[1])} :
                \A lower \in {[i \in 1..Len(action) |->
                                   LowerChar(action[i])]} :
                    /\ lower = Str_allow =>
                          gout'.returned[1].decision = "allow"
                    /\ lower = Str_deny =>
                          gout'.returned[1].decision = "deny"
                    /\ lower \notin {Str_allow, Str_deny} =>
                          gout'.returned[1].decision = "ask"]_vars

\* C27 witness: the rule that decided 'rm x' has the action 'ALLOW', and the
\* command was allowed
C27_Witness ==
    /\ gout.command = <<Cmd_rm>>
    /\ gout.returned # << >>
    /\ gout.returned[1].matchedRule = <<Rule_allow_rm_x.id>>
    /\ Rule_allow_rm_x.action = <<"A", "L", "L", "O", "W">>
    /\ gout.returned[1].decision = "allow"

\* the files of the audit directory: date -> records
AuditFilesOf(dir) == IF dir = << >> THEN EmptyMap ELSE dir[1]

\* the records of a date
RecordsOf(files, date) ==
    IF date \in DOMAIN files THEN files[date] ELSE << >>

\* the step appends exactly one record to the audit log, that of the
\* returned result, and leaves every other record
AppendsRecordOfResult ==
    \A before \in {AuditFilesOf(gfs.auditDir)} :
    \A after \in {AuditFilesOf(gfs'.auditDir)} :
    \E date \in DOMAIN after :
        /\ Len(after[date]) = Len(RecordsOf(before, date)) + 1
        /\ SubSeq(after[date], 1, Len(after[date]) - 1)
              = RecordsOf(before, date)
        /\ after[date][Len(after[date])].command = gout'.command[1]
        /\ after[date][Len(after[date])].decision
              = gout'.returned[1].decision
        /\ after[date][Len(after[date])].matchedRule
              = gout'.returned[1].matchedRule
        /\ \A d \in DOMAIN after \ {date} :
              d \in DOMAIN before /\ after[d] = before[d]

\* the step leaves every record written earlier in its place
KeepsEarlierRecords ==
    \A before \in {AuditFilesOf(gfs.auditDir)} :
    \A after \in {AuditFilesOf(gfs'.auditDir)} :
    \A d \in DOMAIN before :
        /\ d \in DOMAIN after
        /\ Len(after[d]) >= Len(before[d])
        /\ SubSeq(after[d], 1, Len(before[d])) = before[d]

\* the policy file cannot be used: it is absent, unreadable or not JSON
PolicyFileUnusable ==
    \/ gfs.policyFile = << >>
    \/ gfs.policyFile # << >>
          /\ (~gfs.policyFile[1].readable \/ ~gfs.policyFile[1].valid)

\* C28 (as claimed): when the gate is enabled and the policy file is absent,
\* unreadable or not valid JSON, evaluateCommand returns the decision
\* 'allow' and still appends an audit entry that records this decision.
C28_FailOpenIsAudited ==
    [][(EvaluationStep
           /\ isPolicyGateEnabled(genv.envVal, gfs.policyFile)
           /\ PolicyFileUnusable
           /\ gate.cachedPolicy = << >>) =>
          /\ gout'.returned[1].decision = "allow"
          /\ AppendsRecordOfResult]_vars

\* C29 (as claimed): every evaluation that ends in a matched rule or in the
\* default action appends exactly one audit record, whose command, decision
\* and matchedRule are those of the returned result, and no evaluation
\* modifies or removes a record written earlier.
C29_OneRecordPerEvaluation ==
    [][/\ KeepsEarlierRecords
       /\ (EvaluationStep /\ PolicyInUse # << >>) =>
             AppendsRecordOfResult]_vars

\* C29 (amended): every evaluation that ends in a matched rule or in the
\* default action attempts one audit write; when the write succeeds exactly
\* one record is appended, whose command, decision and matchedRule are
\* those of the returned result, and when it fails none is; no step
\* modifies or removes a record written earlier.
C29_OneRecordPerSuccessfulWrite ==
    [][/\ KeepsEarlierRecords
       /\ (EvaluationStep /\ PolicyInUse # << >>) =>
             /\ gout'.attempted
             /\ gout'.written => AppendsRecordOfResult
             /\ ~gout'.written =>
                   AuditFilesOf(gfs'.auditDir) = AuditFilesOf(gfs.auditDir)
       /\ (EvaluationStep /\ PolicyInUse = << >>) =>
             /\ ~gout'.attempted
             /\ gfs'.auditDir = gfs.auditDir]_vars

\* C29 witness: the second evaluation appended its record behind the record
\* of the first
C29_Witness ==
    /\ gout.written
    /\ \E date \in DOMAIN AuditFilesOf(gfs.auditDir) :
          /\ Len(AuditFilesOf(gfs.auditDir)[date]) = 2
          /\ AuditFilesOf(gfs.auditDir)[date][2].command = gout.command[1]
          /\ AuditFilesOf(gfs.auditDir)[date][2].decision
                = gout.returned[1].decision

\* C30: a failing audit write (the directory cannot be created, or the
\* append fails) never propagates: evaluateCommand returns the decision,
\* reason and matchedRule it would return with a working audit log, and
\* later evaluations still attempt to write their own record, creating the
\* directory if it is still missing.
C30_AuditFailureSwallowed ==
    [][EvaluationStep =>
          /\ \A working \in {evaluateCommand(gate, gfs.policyFile,
                                             gfs.auditDir, genv.envVal,
                                             gout'.command[1], NoOpts,
                                             genv.now, FALSE, FALSE)} :
                /\ working.returned # << >>
                /\ working.returned[1].decision \in {"allow", "deny", "ask"}
                /\ gout'.returned = working.returned
                /\ gout'.attempted = working.attempted
          /\ PolicyInUse # << >> => gout'.attempted
          /\ gfs'.auditDir = << >> => ~gate'.auditDirChecked]_vars

\* C30 witness: two evaluations under one policy file, neither of which
\* could create the audit directory; the second was denied by the policy
C30_Witness ==
    /\ genv.evals = 2
    /\ genv.writes = 0
    /\ gfs.policyFile # << >>
    /\ gfs.policyFile[1].valid /\ gfs.policyFile[1].readable
    /\ genv.envVal # <<<<"O", "F", "F">>>>
    /\ gfs.auditDir = << >>
    /\ gout.attempted
    /\ ~gout.written
    /\ gout.returned[1].decision = "deny"

\* the value of GANESH_POLICY_GATE in lower case, << >> when it is not set
OverrideValue ==
    IF genv.envVal = << >> THEN << >>
    ELSE [i \in 1..Len(genv.envVal[1]) |-> LowerChar(genv.envVal[1][i])]

OverrideOff ==
    OverrideValue \in {<<"0">>, <<"f", "a", "l", "s", "e">>, <<"o", "f", "f">>}

OverrideOn ==
    OverrideValue \in {<<"1">>, <<"t", "r", "u", "e">>, <<"o", "n">>}

\* what evaluateCommand returns when the gate is disabled
DisabledResult ==
    [decision |-> "allow", reason |-> <<"Policy gate disabled">>,
     matchedRule |-> << >>]

\* C31: the explicit on/off override decides whether the gate is enabled,
\* whether or not the policy file exists: with the override off every
\* command is allowed ('Policy gate disabled') even when the policy holds a
\* matching deny rule; with the override on the gate is enabled even
\* without a policy file; only when no recognised override is set does the
\* presence of the policy file decide.
C31_OverrideBeatsFilePresence ==
    [][EvaluationStep =>
          /\ OverrideOff => gout'.returned = <<DisabledResult>>
          /\ OverrideOn => gout'.returned # <<DisabledResult>>
          /\ (~OverrideOff /\ ~OverrideOn) =>
                (gout'.returned = <<DisabledResult>>
                    <=> gfs.policyFile = << >>)
          /\ gout'.returned = <<DisabledResult>> =>
                gate' = gate /\ gfs' = gfs]_vars

\* C31 witness: the override is off, the policy file holds a rule that
\* denies the command, and the command was allowed because the gate is
\* disabled
C31_Witness ==
    /\ OverrideOff
    /\ gout.command = <<Cmd_sudo_rm>>
    /\ gout.returned = <<DisabledResult>>
    /\ gfs.policyFile # << >>
    /\ gfs.policyFile[1].valid /\ gfs.policyFile[1].readable
    /\ EvaluateRules(gfs.policyFile[1].content, Cmd_sudo_rm, NoOpts)
          = [decision |-> "deny", reason |-> <<"Matched rule: ", "deny-rm">>,
             matchedRule |-> <<"deny-rm">>]

\* the evaluation looks at the policy file: loadPolicy stats or reads it
ChecksPolicyFile ==
    \E i \in 1..Len(gout'.fsCalls) :
        gout'.fsCalls[i] \in {"statSync", "readFileSync"}

\* the policy file holds a policy that differs in its modification time
\* from what is cached
PolicyFileEdited ==
    /\ gfs.policyFile # << >>
    /\ gfs.policyFile[1].valid /\ gfs.policyFile[1].readable
    /\ gfs.policyFile[1].mtimeMs # gate.cachedPolicyMtime

\* C32 (as claimed): the gate re-validates the policy against the file
\* (stat or read of the policy file) at most once per 30 seconds, whether
\* or not a policy is cached, and an edit that changes the file's
\* modification time is used by every evaluation made 30 seconds or more
\* after the last check.
C32_FileCheckedOncePerTtl ==
    [][EvaluationStep =>
          /\ ChecksPolicyFile =>
                genv.now - gate.lastPolicyCheck >= POLICY_CACHE_TTL_MS
          /\ (isPolicyGateEnabled(genv.envVal, gfs.policyFile)
                 /\ PolicyFileEdited
                 /\ genv.now - gate.lastPolicyCheck >= POLICY_CACHE_TTL_MS) =>
                /\ gate'.cachedPolicy = <<gfs.policyFile[1].content>>
                /\ gout'.returned[1].decision
                      = EvaluateRules(gfs.policyFile[1].content,
                                      gout'.command[1], NoOpts).decision]_vars

\* C33 (as claimed): base-command extraction strips leading VAR=value
\* assignments, a sudo prefix together with its flags, and any directory
\* path: for every command c the forms 'sudo [flags] c', 'VAR=value c' and
\* '/dir/c' yield the same base command as c.
C33_PrefixesDoNotChangeBase ==
    extraction.kind # "none" => extraction.prefixedBase = extraction.base

\* C34 (as claimed): evaluateCommand fails open on any error and never
\* throws: for every content of the policy file, including valid JSON of the
\* wrong shape, it returns a result, and for a file that cannot be applied
\* the decision is allow.
C34_NeverThrowsFailsOpen ==
    [][EvaluationCall =>
          /\ ~gout'.thrown
          /\ gout'.returned # << >>
          /\ (PolicyInUse # << >> /\ PolicyInUse[1] \in MalformedPolicies) =>
                gout'.returned[1].decision = "allow"]_vars

\* what evaluateCommand returns when loadPolicy returns no policy
NoPolicyResult ==
    [decision |-> "allow", reason |-> <<"No policy config found">>,
     matchedRule |-> << >>]

\* C35 (as claimed): once a freshness check has found the policy file
\* absent or unparsable, no later evaluation applies the rules of a
\* previously cached policy until a valid policy file has been loaded
\* again: an evaluation that follows one which found no policy, the file
\* still being absent or unparsable, returns the fail-open allow too.
C35_NoStalePolicyAfterFailedCheck ==
    [][(EvaluationCall
           /\ gout.returned = <<NoPolicyResult>>
           /\ PolicyFileUnusable) =>
          gout'.returned = <<NoPolicyResult>>]_vars

\* C36 (as claimed): in every state in which the vault is unlocked the
\* identity key and the public key are set and the manifest read by the
\* unlock is loaded, whatever lock() does while an unlock, resolve or store
\* is suspended at an external call; a vault that lock() has cleared is not
\* unlocked by a call that was already under way.
C36_UnlockedIsComplete ==
    vault.unlocked =>
        /\ vault.secretKey # Null
        /\ vault.publicKey # Null
        /\ vdisk.manifest # << >> => vault.manifest # << >>

\* the store call of caller p has returned false
StoreFailed(p) ==
    /\ vcall[p].op = "store"
    /\ vcall[p].pc = "done"
    /\ vcall[p].result = <<FALSE>>

\* C37 (as claimed): a store that returns false leaves the vault as it was:
\* the in-memory map of the unlocked vault still equals the persisted blob,
\* so resolve and list return what they returned before the failed store.
C37_FailedStoreLeavesVault ==
    \A p \in VaultCallers :
        (StoreFailed(p) /\ vault.unlocked) =>
            vault.secretsCache = vdisk.secrets

\* the paths a manifest lists in a group of tier 3
Tier3Paths(m) ==
    {path \in {Path_t, Path_p, BotTokenPath} :
        \E i \in 1..Len(m.groups) :
            m.groups[i].tier = 3 /\ path \in m.groups[i].secrets}

\* C39 (as claimed): store never lowers the protection of a classified
\* secret: for a path listed in a tier-3 group of the manifest, after any
\* sequence of store, lock and unlock operations the tier computed for that
\* path from the loaded manifest is still 3.
C39_StoreKeepsTier3 ==
    vault.manifest # << >> =>
        \A path \in Tier3Paths(vault.manifest[1]) :
            getSecretTier(vault.manifest, path) = 3

\* the store call of caller p has returned true
StoreSucceeded(p) ==
    /\ vcall[p].op = "store"
    /\ vcall[p].pc = "done"
    /\ vcall[p].result = <<TRUE>>

\* C38 (as claimed): when two store calls on one vault overlap, then after
\* both have returned true the blob on disk contains both stored entries: it
\* equals the in-memory map, whatever the order in which the two encryption
\* processes finish.
C38_OverlappingStoresBothPersist ==
    (\A p \in VaultCallers : StoreSucceeded(p)) =>
        /\ \A p \in VaultCallers :
              /\ Has(vdisk.secrets, vcall[p].path)
              /\ vdisk.secrets[vcall[p].path] = vcall[p].value
        /\ vdisk.secrets = vault.secretsCache

\* in this step the poll loop receives the answer of a getUpdates request
\* after the overall timeout, measured from the start of polling, has elapsed
ReceivedAfterTimeout ==
    /\ poll.pc = "fetch"
    /\ poll'.pc # "fetch"
    /\ clock' - poll.startTime >= poll.timeoutMs

\* C40 (as claimed): an approval is honoured only within the overall
\* timeout: a matching approve response that the poll loop receives after
\* the timeout has elapsed is not accepted, so the poll does not go on to
\* return approved and resolveTier3 does not return the secret.
C40_ApprovalOnlyWithinTimeout ==
    [][ReceivedAfterTimeout =>
          ~(poll'.accepted # << >> /\ ApproveAccepted(poll'))]_vars

=============================================================================
